---- MODULE Spec2Model ----
(***************************************************************************)
(* A model of light-mcp-agents: the MCP connection manager                 *)
(* (src/src/mcp/mcp_connection_manager.py), the tool retry loop            *)
(* (src/src/tools/tool.py) and the agent's chain-of-thought loop           *)
(* (src/src/agent/agent.py).                                               *)
(*                                                                         *)
(* Scheduling model: asyncio is single-threaded and cooperative, so every  *)
(* action below is the code that one task runs between two suspension      *)
(* points (an await that really suspends).  An await that does not suspend *)
(* (Event.wait() on a set event, Lock.acquire() on a free lock,            *)
(* AsyncExitStack.aclose() on an empty stack) is part of the same action.  *)
(***************************************************************************)
EXTENDS Integers, Sequences, FiniteSets, TLC

(***************************************************************************)
(* Part 1: ServerConnection and MCPConnectionManager                       *)
(***************************************************************************)

\* Server names used by the callers, and the caller tasks.
Names == {"s1", "s2"}
Procs == {"p1", "p2"}

\* Bounds: ServerConnection objects ever created, operations ever started.
MaxConns == 2
MaxOps == 4

Conns == 1..MaxConns

\* None, as the value of an Optional connection or session.  A session is
\* identified by the connection whose _initialize_impl created it.
NoConn == 0

VARIABLES
    connections,    \* MCPConnectionManager.connections: name -> connection
    order,          \* insertion order of the keys of connections
    mgr_lock,       \* MCPConnectionManager._cleanup_lock: holder, then waiters
    mgr_cleaning,   \* MCPConnectionManager._is_cleaning_up
    sessions,       \* Context.sessions: name -> session
    nconns,         \* ServerConnection objects created so far
    cname,          \* ServerConnection.name
    session,        \* ServerConnection.session
    init_task,      \* ServerConnection._init_task: where _initialize_impl is
    cancel_req,     \* Task.cancel() was called on _init_task
    init_complete,  \* ServerConnection._init_complete (asyncio.Event)
    cleanup_lock,   \* ServerConnection._cleanup_lock: holder, then waiters
    is_cleaning_up, \* ServerConnection._is_cleaning_up
    exit_stack,     \* contexts entered on _initialize_impl's AsyncExitStack
    registered,     \* history: register_session was called for the connection
    releasers,      \* history: who closed contexts of the exit stack
    teardowns,      \* history: times cleanup() ran its teardown body
    attempts,       \* history: times _initialize_impl was started as a task
    pc,             \* where each caller task is
    op,             \* the operation a caller is in, or has last finished
    pname,          \* its name argument
    pconn,          \* its local variable `connection`
    snapshot,       \* disconnect_all: server_names still to visit
    swept,          \* history: times line 214 copied the connection's name
    ret,            \* the value the last operation returned
    err,            \* the last operation raised (KeyError)
    nops            \* operations started so far

\* Tool.execute, as run by a caller task (part 2).
VARIABLES
    attempt,        \* Tool.execute: the local variable attempt
    lookups,        \* history: get_session calls of the caller's execute
    sleeps,         \* history: asyncio.sleep(delay) calls of that execute
    calls,          \* history: session.call_tool calls of that execute
    nosession       \* history: get_session returned None to that execute

\* Agent.start_conversation (part 3).
VARIABLES
    messages,              \* the local list messages
    chain_length,          \* the local variable chain_length
    is_tool_call,          \* the local variable is_tool_call
    final_response_shown,  \* the local variable final_response_shown
    llm_response,          \* the reply being processed
    apc,                   \* where start_conversation is
    turns,                 \* user turns started so far
    printed,               \* history: what the turn has printed to the user
    execs,                 \* history: tool.execute calls of the turn
    llm_calls,             \* history: get_response calls of the turn
    fallbacks,             \* history: times the turn took the branch of line 241
    outcomes               \* history: how each reply of the turn's loop ended

\* Agent.process_llm_response (part 4).
VARIABLES
    response,       \* the argument llm_response, as a sequence of tokens
    processed       \* what process_llm_response made of it

\* ToolRegistry and its discovery loops (part 5).
VARIABLES
    tools,          \* ToolRegistry.tools: tool name -> Tool
    discovered,     \* what the caller's last discover_tools call returned
    todo,           \* the servers the caller's for loop has still to visit
    reported,       \* history: servers the call logged as not initialized
    list_failed,    \* history: servers whose list_tools raised in the call
    ptool           \* the Tool the caller's execute was called on

\* Agent.execute_capability (part 7).
VARIABLES
    cap_pc,             \* where execute_capability is
    cap_messages,       \* its local list messages
    cap_chain_length,   \* its local variable chain_length
    cap_is_tool_call,   \* its local variable is_tool_call
    cap_response,       \* the reply being processed
    result,             \* its local variable result
    cap_ret,            \* what the last call returned
    cap_llm_calls,      \* history: get_response calls of the call
    cap_execs,          \* history: tool.execute calls of the call
    ncaps               \* execute_capability calls so far

connVars == <<connections, order, mgr_lock, mgr_cleaning, sessions, nconns,
              cname, session, init_task, cancel_req, init_complete,
              cleanup_lock, is_cleaning_up, exit_stack, registered, releasers,
              teardowns, attempts>>
procVars == <<pc, op, pname, pconn, snapshot, swept, ret, err, nops>>
toolVars == <<attempt, lookups, sleeps, calls, nosession>>
agentVars == <<messages, chain_length, is_tool_call, final_response_shown,
               llm_response, apc, turns, printed, execs, llm_calls,
               fallbacks, outcomes>>
parseVars == <<response, processed>>
regVars == <<tools, discovered, todo, reported, list_failed, ptool>>
capVars == <<cap_pc, cap_messages, cap_chain_length, cap_is_tool_call,
             cap_response, result, cap_ret, cap_llm_calls, cap_execs, ncaps>>

\* What the connection manager's code leaves alone, what Tool.execute leaves
\* alone, what the agent's loop leaves alone, what process_llm_response
\* leaves alone, and what the registry's loops leave alone.
nonConnVars == <<toolVars, agentVars, parseVars, regVars, capVars>>
nonToolVars == <<agentVars, parseVars, regVars, capVars>>
nonAgentVars == <<connVars, procVars, toolVars, parseVars, regVars,
                  capVars>>
nonParseVars == <<connVars, procVars, toolVars, agentVars, regVars,
                  capVars>>
nonRegVars == <<toolVars, agentVars, parseVars, capVars>>
nonCapVars == <<connVars, procVars, toolVars, agentVars, parseVars,
                regVars>>

\* Positions of the _initialize_impl task.
TaskLive == {"created", "transport", "session", "handshake", "serving",
             "closing", "cancelling", "failing"}
TaskDone == {"failed", "cancelled"}

\* asyncio.Task.done()
Done(c) == init_task[c] \in TaskDone

\* No caller is in the middle of disconnect_all's for loop: between two
\* iterations of that loop the code does not suspend, so nothing else runs.
Quiet == \A q \in Procs : pc[q] # "da_next"

\* The names of the remote operations, and the absence of a Tool (what
\* dict.get returns for a name that is not a key).
ToolNames == {"read", "echo", "write"}
NoTool == [name |-> "none", server_name |-> "none"]

\* No reply has been processed.
NotProcessed == [done |-> FALSE, call |-> <<>>, human |-> <<>>]

\* The state after construction, but for the reply to process.
Constructed ==
    /\ connections = [n \in Names |-> NoConn]
    /\ order = <<>>
    /\ mgr_lock = <<>>
    /\ mgr_cleaning = FALSE
    /\ sessions = [n \in Names |-> NoConn]
    /\ nconns = 0
    /\ cname = [c \in Conns |-> "s1"]
    /\ session = [c \in Conns |-> NoConn]
    /\ init_task = [c \in Conns |-> "none"]
    /\ cancel_req = [c \in Conns |-> FALSE]
    /\ init_complete = [c \in Conns |-> FALSE]
    /\ cleanup_lock = [c \in Conns |-> <<>>]
    /\ is_cleaning_up = [c \in Conns |-> FALSE]
    /\ exit_stack = [c \in Conns |-> {}]
    /\ registered = [c \in Conns |-> FALSE]
    /\ releasers = [c \in Conns |-> {}]
    /\ teardowns = [c \in Conns |-> 0]
    /\ attempts = [c \in Conns |-> 0]
    /\ pc = [p \in Procs |-> "idle"]
    /\ op = [p \in Procs |-> "none"]
    /\ pname = [p \in Procs |-> "s1"]
    /\ pconn = [p \in Procs |-> NoConn]
    /\ snapshot = [p \in Procs |-> <<>>]
    /\ swept = [c \in Conns |-> 0]
    /\ ret = [p \in Procs |-> NoConn]
    /\ err = [p \in Procs |-> FALSE]
    /\ nops = 0
    /\ attempt = [p \in Procs |-> 0]
    /\ lookups = [p \in Procs |-> 0]
    /\ sleeps = [p \in Procs |-> 0]
    /\ calls = [p \in Procs |-> 0]
    /\ nosession = [p \in Procs |-> FALSE]
    /\ messages = <<[role |-> "system", content |-> "tools"]>>
    /\ chain_length = 0
    /\ is_tool_call = TRUE
    /\ final_response_shown = FALSE
    /\ llm_response = "none"
    /\ apc = "input"
    /\ turns = 0
    /\ printed = <<>>
    /\ execs = 0
    /\ llm_calls = 0
    /\ fallbacks = 0
    /\ outcomes = <<>>
    /\ processed = NotProcessed
    /\ tools = [t \in ToolNames |-> NoTool]
    /\ discovered = [p \in Procs |-> <<>>]
    /\ todo = [p \in Procs |-> <<>>]
    /\ reported = [p \in Procs |-> {}]
    /\ list_failed = [p \in Procs |-> {}]
    /\ ptool = [p \in Procs |-> NoTool]
    /\ cap_pc = "idle"
    /\ cap_messages = <<>>
    /\ cap_chain_length = 0
    /\ cap_is_tool_call = TRUE
    /\ cap_response = "none"
    /\ result = <<"None">>
    /\ cap_ret = <<"None">>
    /\ cap_llm_calls = 0
    /\ cap_execs = 0
    /\ ncaps = 0

Init ==
    /\ Constructed
    /\ response = <<>>

(***************************************************************************)
(* ServerConnection._initialize_impl, the background task                  *)
(***************************************************************************)

\* Mutant of RaiseInInit: the except clause re-raises without setting the
\* event.
RaiseInInitSilent(c, stack) ==
    /\ UNCHANGED init_complete
    /\ init_task' = [init_task EXCEPT
                        ![c] = IF stack = {} THEN "failed" ELSE "failing"]

\* The except Exception clause (lines 112-116) followed by the finally clause
\* (117-120): the event is set, and the task ends at once when the exit stack
\* is empty, else it suspends in aclose().
RaiseInInit(c, stack) ==
    /\ init_complete' = [init_complete EXCEPT ![c] = TRUE]
    /\ init_task' = [init_task EXCEPT
                        ![c] = IF stack = {} THEN "failed" ELSE "failing"]

\* First step of the task: the command is resolved (lines 49-58) and
\* stdio_client is entered (73), or the command is None and ValueError is
\* raised.
TaskStart(c) ==
    /\ Quiet
    /\ init_task[c] = "created"
    /\ ~cancel_req[c]
    /\ \E command_ok \in BOOLEAN :
          IF command_ok
          THEN /\ init_task' = [init_task EXCEPT ![c] = "transport"]
               /\ UNCHANGED init_complete
          ELSE RaiseInInit(c, exit_stack[c])
    /\ UNCHANGED <<connections, order, mgr_lock, mgr_cleaning, sessions,
                   nconns, cname, session, cancel_req, cleanup_lock,
                   is_cleaning_up, exit_stack, registered, releasers,
                   teardowns, attempts>>
    /\ UNCHANGED procVars
    /\ UNCHANGED nonConnVars

\* stdio_client(server_params) is entered, or fails (lines 73-76).
TaskTransport(c) ==
    /\ Quiet
    /\ init_task[c] = "transport"
    /\ ~cancel_req[c]
    /\ \E started \in BOOLEAN :
          IF started
          THEN /\ exit_stack' = [exit_stack EXCEPT ![c] = {"transport"}]
               /\ init_task' = [init_task EXCEPT ![c] = "session"]
               /\ UNCHANGED init_complete
          ELSE /\ RaiseInInit(c, exit_stack[c])
               /\ UNCHANGED exit_stack
    /\ UNCHANGED <<connections, order, mgr_lock, mgr_cleaning, sessions,
                   nconns, cname, session, cancel_req, cleanup_lock,
                   is_cleaning_up, registered, releasers, teardowns,
                   attempts>>
    /\ UNCHANGED procVars
    /\ UNCHANGED nonConnVars

\* ClientSession(read, write) is entered, or fails (lines 79-81).
TaskSession(c) ==
    /\ Quiet
    /\ init_task[c] = "session"
    /\ ~cancel_req[c]
    /\ \E entered \in BOOLEAN :
          IF entered
          THEN /\ exit_stack' = [exit_stack EXCEPT ![c] = @ \cup {"session"}]
               /\ init_task' = [init_task EXCEPT ![c] = "handshake"]
               /\ UNCHANGED init_complete
          ELSE /\ RaiseInInit(c, exit_stack[c])
               /\ UNCHANGED exit_stack
    /\ UNCHANGED <<connections, order, mgr_lock, mgr_cleaning, sessions,
                   nconns, cname, session, cancel_req, cleanup_lock,
                   is_cleaning_up, registered, releasers, teardowns,
                   attempts>>
    /\ UNCHANGED procVars
    /\ UNCHANGED nonConnVars

\* A variant of lines 85-97 that sets the event without registering the
\* session in the context.
StoreAndSignalUnregistered(c) ==
    /\ session' = [session EXCEPT ![c] = c]
    /\ init_complete' = [init_complete EXCEPT ![c] = TRUE]
    /\ init_task' = [init_task EXCEPT ![c] = "serving"]
    /\ UNCHANGED <<sessions, registered>>

\* Lines 85-97 after a successful handshake: store the session, register it
\* in the context under the server's name, set the event.
StoreAndSignal(c) ==
    /\ session' = [session EXCEPT ![c] = c]
    /\ sessions' = [sessions EXCEPT ![cname[c]] = c]
    /\ registered' = [registered EXCEPT ![c] = TRUE]
    /\ init_complete' = [init_complete EXCEPT ![c] = TRUE]
    /\ init_task' = [init_task EXCEPT ![c] = "serving"]

\* session.initialize() returns or fails (line 82); on success the task goes
\* on to await asyncio.Future() (line 102).
TaskHandshake(c) ==
    /\ Quiet
    /\ init_task[c] = "handshake"
    /\ ~cancel_req[c]
    /\ \E shaken \in BOOLEAN :
          IF shaken
          THEN StoreAndSignal(c)
          ELSE /\ RaiseInInit(c, exit_stack[c])
               /\ UNCHANGED <<session, sessions, registered>>
    /\ UNCHANGED <<connections, order, mgr_lock, mgr_cleaning, nconns, cname,
                   cancel_req, cleanup_lock, is_cleaning_up, exit_stack,
                   releasers, teardowns, attempts>>
    /\ UNCHANGED procVars
    /\ UNCHANGED nonConnVars

\* Where the task goes when CancelledError is thrown into it.  A task that
\* never ran is cancelled without running any of its body.  In the three
\* awaits of the initialization the error passes the except clause of line
\* 109 and reaches the finally clause; in await asyncio.Future() it is caught
\* at line 103.  The event is not set on any of these paths.
OnCancel(at, stack) ==
    CASE at = "created" -> "cancelled"
      [] at \in {"transport", "session", "handshake"} ->
            IF stack = {} THEN "cancelled" ELSE "cancelling"
      [] at = "serving" -> "closing"

\* CancelledError is delivered to the suspended task.
TaskCancel(c) ==
    /\ Quiet
    /\ cancel_req[c]
    /\ init_task[c] \in {"created", "transport", "session", "handshake",
                         "serving"}
    /\ init_task' = [init_task EXCEPT ![c] = OnCancel(@, exit_stack[c])]
    /\ UNCHANGED <<connections, order, mgr_lock, mgr_cleaning, sessions,
                   nconns, cname, session, cancel_req, init_complete,
                   cleanup_lock, is_cleaning_up, exit_stack, registered,
                   releasers, teardowns, attempts>>
    /\ UNCHANGED procVars
    /\ UNCHANGED nonConnVars

\* exit_stack.aclose() finishes inside the task (line 106 after a cancel in
\* await asyncio.Future(), line 120 otherwise) and the task ends: with the
\* exception of the failure, or cancelled.
TaskRelease(c) ==
    /\ Quiet
    /\ init_task[c] \in {"closing", "cancelling", "failing"}
    /\ exit_stack' = [exit_stack EXCEPT ![c] = {}]
    /\ releasers' = [releasers EXCEPT ![c] = @ \cup {"task"}]
    /\ init_task' = [init_task EXCEPT
                        ![c] = IF @ = "failing" /\ ~cancel_req[c]
                               THEN "failed" ELSE "cancelled"]
    /\ UNCHANGED <<connections, order, mgr_lock, mgr_cleaning, sessions,
                   nconns, cname, session, cancel_req, init_complete,
                   cleanup_lock, is_cleaning_up, registered, teardowns,
                   attempts>>
    /\ UNCHANGED procVars
    /\ UNCHANGED nonConnVars

(***************************************************************************)
(* MCPConnectionManager.connect_server and get_session                     *)
(***************************************************************************)

\* A caller starts an operation.
Begin(p, o, n) ==
    /\ Quiet
    /\ pc[p] = "idle"
    /\ nops < MaxOps
    /\ nops' = nops + 1
    /\ op' = [op EXCEPT ![p] = o]
    /\ pname' = [pname EXCEPT ![p] = n]

\* ServerConnection.initialize (lines 34-45) on a connection whose _init_task
\* is None: the task is created; the caller then waits for the event.
Initialize(c) ==
    /\ init_task' = [init_task EXCEPT ![c] = "created"]
    /\ attempts' = [attempts EXCEPT ![c] = @ + 1]

\* Mutant of AlreadyConnecting: connect_server does not look the name up.
AlreadyConnectingNever(n) == FALSE

\* The test of line 173, name in self.connections.
AlreadyConnecting(n) == connections[n] # NoConn

\* connect_server (lines 171-185) up to its first suspension.  A name that is
\* registered yields the existing connection, after its event; otherwise a
\* ServerConnection is created, stored and initialized.
ConnectServer(p, n) ==
    /\ Begin(p, "connect", n)
    /\ IF AlreadyConnecting(n)
       THEN /\ pconn' = [pconn EXCEPT ![p] = connections[n]]
            /\ IF init_complete[connections[n]]
               THEN /\ pc' = [pc EXCEPT ![p] = "idle"]
                    /\ ret' = [ret EXCEPT ![p] = connections[n]]
               ELSE /\ pc' = [pc EXCEPT ![p] = "cs_wait"]
                    /\ ret' = [ret EXCEPT ![p] = NoConn]
            /\ UNCHANGED <<connections, order, nconns, cname, init_task,
                           attempts>>
       ELSE /\ nconns < MaxConns
            /\ LET c == nconns + 1 IN
                  /\ nconns' = c
                  /\ cname' = [cname EXCEPT ![c] = n]
                  /\ connections' = [connections EXCEPT ![n] = c]
                  /\ order' = Append(order, n)
                  /\ Initialize(c)
                  /\ pconn' = [pconn EXCEPT ![p] = c]
                  /\ pc' = [pc EXCEPT ![p] = "cs_wait"]
                  /\ ret' = [ret EXCEPT ![p] = NoConn]
    /\ UNCHANGED <<mgr_lock, mgr_cleaning, sessions, session, cancel_req,
                   init_complete, cleanup_lock, is_cleaning_up, exit_stack,
                   registered, releasers, teardowns, snapshot, swept, err>>
    /\ UNCHANGED nonConnVars

\* The event is set: connect_server returns the connection it waited for.
ConnectReturn(p) ==
    /\ Quiet
    /\ pc[p] = "cs_wait"
    /\ init_complete[pconn[p]]
    /\ pc' = [pc EXCEPT ![p] = "idle"]
    /\ ret' = [ret EXCEPT ![p] = pconn[p]]
    /\ UNCHANGED connVars
    /\ UNCHANGED <<op, pname, pconn, snapshot, swept, err, nops>>
    /\ UNCHANGED nonConnVars

\* The connections a caller can reach: the manager's entries and the one its
\* own connect_server call returned.
Held(p) ==
    ({connections[n] : n \in Names}
        \cup (IF op[p] = "connect" THEN {ret[p]} ELSE {})) \ {NoConn}

\* A variant of InitializeCall in which initialize() starts _initialize_impl
\* again whenever the earlier task has ended.
InitializeCallRetries(p, c) ==
    /\ Begin(p, "initialize", cname[c])
    /\ c \in Held(p)
    /\ pconn' = [pconn EXCEPT ![p] = c]
    /\ IF init_task[c] \in {"none", "failed", "cancelled"}
       THEN Initialize(c)
       ELSE UNCHANGED <<init_task, attempts>>
    /\ pc' = [pc EXCEPT ![p] = IF init_complete[c] THEN "idle" ELSE "in_wait"]
    /\ ret' = [ret EXCEPT ![p] = NoConn]
    /\ UNCHANGED <<connections, order, nconns, cname, mgr_lock, mgr_cleaning,
                   sessions, session, cancel_req, init_complete, cleanup_lock,
                   is_cleaning_up, exit_stack, registered, releasers,
                   teardowns, snapshot, swept, err>>
    /\ UNCHANGED nonConnVars

\* ServerConnection.initialize (lines 34-45) called by a caller on a connection
\* it holds, up to its first suspension.  With _init_task set (lines 36-39)
\* nothing is started and the caller only waits for the event.
InitializeCall(p, c) ==
    /\ Begin(p, "initialize", cname[c])
    /\ c \in Held(p)
    /\ pconn' = [pconn EXCEPT ![p] = c]
    /\ IF init_task[c] = "none"
       THEN Initialize(c)
       ELSE UNCHANGED <<init_task, attempts>>
    /\ pc' = [pc EXCEPT ![p] = IF init_complete[c] THEN "idle" ELSE "in_wait"]
    /\ ret' = [ret EXCEPT ![p] = NoConn]
    /\ UNCHANGED <<connections, order, nconns, cname, mgr_lock, mgr_cleaning,
                   sessions, session, cancel_req, init_complete, cleanup_lock,
                   is_cleaning_up, exit_stack, registered, releasers,
                   teardowns, snapshot, swept, err>>
    /\ UNCHANGED nonConnVars

\* The event is set: initialize() returns (lines 38-39 and 45).
InitializeReturn(p) ==
    /\ Quiet
    /\ pc[p] = "in_wait"
    /\ init_complete[pconn[p]]
    /\ pc' = [pc EXCEPT ![p] = "idle"]
    /\ UNCHANGED connVars
    /\ UNCHANGED <<op, pname, pconn, snapshot, swept, ret, err, nops>>
    /\ UNCHANGED nonConnVars

\* Mutant of GetSession: connection.session is returned without waiting for
\* the event.
GetSessionNoWait(p, n) ==
    /\ Begin(p, "get", n)
    /\ IF connections[n] = NoConn
       THEN /\ pc' = [pc EXCEPT ![p] = "idle"]
            /\ ret' = [ret EXCEPT ![p] = NoConn]
            /\ UNCHANGED pconn
       ELSE /\ pconn' = [pconn EXCEPT ![p] = connections[n]]
            /\ pc' = [pc EXCEPT ![p] = "idle"]
            /\ ret' = [ret EXCEPT ![p] = session[connections[n]]]
    /\ UNCHANGED connVars
    /\ UNCHANGED <<snapshot, swept, err>>
    /\ UNCHANGED nonConnVars

\* get_session (lines 187-194) up to its first suspension: None for a name
\* that is not registered, else connection.session once the event is set.
GetSession(p, n) ==
    /\ Begin(p, "get", n)
    /\ IF connections[n] = NoConn
       THEN /\ pc' = [pc EXCEPT ![p] = "idle"]
            /\ ret' = [ret EXCEPT ![p] = NoConn]
            /\ UNCHANGED pconn
       ELSE /\ pconn' = [pconn EXCEPT ![p] = connections[n]]
            /\ IF init_complete[connections[n]]
               THEN /\ pc' = [pc EXCEPT ![p] = "idle"]
                    /\ ret' = [ret EXCEPT ![p] = session[connections[n]]]
               ELSE /\ pc' = [pc EXCEPT ![p] = "gs_wait"]
                    /\ ret' = [ret EXCEPT ![p] = NoConn]
    /\ UNCHANGED connVars
    /\ UNCHANGED <<snapshot, swept, err>>
    /\ UNCHANGED nonConnVars

\* The event is set: get_session returns connection.session as it is now.
GetSessionReturn(p) ==
    /\ Quiet
    /\ pc[p] = "gs_wait"
    /\ init_complete[pconn[p]]
    /\ pc' = [pc EXCEPT ![p] = "idle"]
    /\ ret' = [ret EXCEPT ![p] = session[pconn[p]]]
    /\ UNCHANGED connVars
    /\ UNCHANGED <<op, pname, pconn, snapshot, swept, err, nops>>
    /\ UNCHANGED nonConnVars

(***************************************************************************)
(* ServerConnection.cleanup, MCPConnectionManager.disconnect_server and    *)
(* disconnect_all                                                          *)
(***************************************************************************)

\* Lines 148-152 of cleanup: remove the name from the context's sessions,
\* clear the session.
Teardown(c) ==
    /\ sessions' = [sessions EXCEPT ![cname[c]] = NoConn]
    /\ session' = [session EXCEPT ![c] = NoConn]
    /\ teardowns' = [teardowns EXCEPT ![c] = @ + 1]

\* Mutant of DelConnection: the name is left in self.connections.
DelConnectionKeeps(p, n, direct) ==
    /\ UNCHANGED <<connections, order>>
    /\ err' = [err EXCEPT ![p] = FALSE]
    /\ pc' = [pc EXCEPT ![p] = IF direct THEN "idle" ELSE "da_next"]

\* Line 201, del self.connections[name], which raises KeyError when the name
\* is no longer a key.  disconnect_all catches the error (line 218) and goes
\* on with its loop; a direct caller of disconnect_server gets it.
DelConnection(p, n, direct) ==
    /\ IF connections[n] # NoConn
       THEN /\ connections' = [connections EXCEPT ![n] = NoConn]
            /\ order' = SelectSeq(order, LAMBDA x : x # n)
            /\ err' = [err EXCEPT ![p] = FALSE]
       ELSE /\ UNCHANGED <<connections, order>>
            /\ err' = [err EXCEPT ![p] = direct]
    /\ pc' = [pc EXCEPT ![p] = IF direct THEN "idle" ELSE "da_next"]

\* Mutant of Cleanup: the task is cancelled but not awaited, the teardown
\* runs at once.
CleanupNoAwait(p, c, queue, n, direct) ==
    /\ Teardown(c)
    /\ cleanup_lock' = [cleanup_lock EXCEPT ![c] = Tail(queue)]
    /\ cancel_req' = [cancel_req EXCEPT ![c] = init_task[c] \in TaskLive]
    /\ UNCHANGED <<is_cleaning_up, exit_stack, releasers>>
    /\ DelConnection(p, n, direct)

\* Mutant of Cleanup: the caller of cleanup closes the exit stack itself
\* before it cancels the task.
CleanupClosing(p, c, queue, n, direct) ==
    IF init_task[c] \in TaskLive
    THEN /\ exit_stack' = [exit_stack EXCEPT ![c] = {}]
         /\ releasers' = [releasers EXCEPT ![c] = @ \cup {p}]
         /\ cleanup_lock' = [cleanup_lock EXCEPT ![c] = queue]
         /\ is_cleaning_up' = [is_cleaning_up EXCEPT ![c] = TRUE]
         /\ cancel_req' = [cancel_req EXCEPT ![c] = TRUE]
         /\ pc' = [pc EXCEPT ![p] = "ds_task"]
         /\ err' = [err EXCEPT ![p] = FALSE]
         /\ UNCHANGED <<sessions, session, teardowns, connections, order>>
    ELSE /\ Teardown(c)
         /\ cleanup_lock' = [cleanup_lock EXCEPT ![c] = Tail(queue)]
         /\ UNCHANGED <<is_cleaning_up, cancel_req, exit_stack, releasers>>
         /\ DelConnection(p, n, direct)

\* cleanup (lines 126-157) from the point where caller p holds the lock
\* (queue is the lock's queue, p at its head), and, when cleanup returns
\* without suspending, the rest of disconnect_server(n).  A task that is not
\* done is cancelled and awaited; otherwise the teardown runs at once.
Cleanup(p, c, queue, n, direct) ==
    IF is_cleaning_up[c]
    THEN /\ cleanup_lock' = [cleanup_lock EXCEPT ![c] = Tail(queue)]
         /\ UNCHANGED <<sessions, session, teardowns, is_cleaning_up,
                        cancel_req, exit_stack, releasers>>
         /\ DelConnection(p, n, direct)
    ELSE IF init_task[c] \in TaskLive
    THEN /\ cleanup_lock' = [cleanup_lock EXCEPT ![c] = queue]
         /\ is_cleaning_up' = [is_cleaning_up EXCEPT ![c] = TRUE]
         /\ cancel_req' = [cancel_req EXCEPT ![c] = TRUE]
         /\ pc' = [pc EXCEPT ![p] = "ds_task"]
         /\ err' = [err EXCEPT ![p] = FALSE]
         /\ UNCHANGED <<sessions, session, teardowns, connections, order,
                        exit_stack, releasers>>
    ELSE /\ Teardown(c)
         /\ cleanup_lock' = [cleanup_lock EXCEPT ![c] = Tail(queue)]
         /\ UNCHANGED <<is_cleaning_up, cancel_req, exit_stack, releasers>>
         /\ DelConnection(p, n, direct)

\* disconnect_server(n) (lines 196-201) up to its first suspension: a no-op
\* for a name that is not registered, else cleanup() of the connection, which
\* first takes the connection's lock.
DisconnectEnter(p, n, direct) ==
    IF connections[n] = NoConn
    THEN /\ pc' = [pc EXCEPT ![p] = IF direct THEN "idle" ELSE "da_next"]
         /\ err' = [err EXCEPT ![p] = FALSE]
         /\ UNCHANGED <<connections, order, sessions, session, teardowns,
                        is_cleaning_up, cleanup_lock, cancel_req, pconn,
                        exit_stack, releasers>>
    ELSE LET c == connections[n] IN
         /\ pconn' = [pconn EXCEPT ![p] = c]
         /\ IF cleanup_lock[c] = <<>>
            THEN Cleanup(p, c, <<p>>, n, direct)
            ELSE /\ cleanup_lock' = [cleanup_lock EXCEPT ![c] = Append(@, p)]
                 /\ pc' = [pc EXCEPT ![p] = "ds_lock"]
                 /\ err' = [err EXCEPT ![p] = FALSE]
                 /\ UNCHANGED <<connections, order, sessions, session,
                                teardowns, is_cleaning_up, cancel_req,
                                exit_stack, releasers>>

\* A caller calls disconnect_server(n).
DisconnectServer(p, n) ==
    /\ Begin(p, "disconnect", n)
    /\ DisconnectEnter(p, n, TRUE)
    /\ UNCHANGED <<mgr_lock, mgr_cleaning, nconns, cname, init_task,
                   init_complete, registered, attempts, snapshot, swept, ret>>
    /\ UNCHANGED nonConnVars

\* The connection's lock has passed to the waiting caller: cleanup goes on.
CleanupLocked(p) ==
    /\ Quiet
    /\ pc[p] = "ds_lock"
    /\ Head(cleanup_lock[pconn[p]]) = p
    /\ Cleanup(p, pconn[p], cleanup_lock[pconn[p]], pname[p],
               op[p] = "disconnect")
    /\ UNCHANGED <<mgr_lock, mgr_cleaning, nconns, cname, init_task,
                   init_complete, registered, attempts>>
    /\ UNCHANGED <<op, pname, pconn, snapshot, swept, ret, nops>>
    /\ UNCHANGED nonConnVars

\* The cancelled task is done: await self._init_task returns (line 141), the
\* teardown runs, the flag is reset and the lock released (line 157), and
\* disconnect_server deletes the name.
CleanupResume(p) ==
    /\ Quiet
    /\ pc[p] = "ds_task"
    /\ Done(pconn[p])
    /\ Teardown(pconn[p])
    /\ is_cleaning_up' = [is_cleaning_up EXCEPT ![pconn[p]] = FALSE]
    /\ cleanup_lock' = [cleanup_lock EXCEPT ![pconn[p]] = Tail(@)]
    /\ DelConnection(p, pname[p], op[p] = "disconnect")
    /\ UNCHANGED <<mgr_lock, mgr_cleaning, nconns, cname, init_task,
                   cancel_req, init_complete, exit_stack, registered,
                   releasers, attempts>>
    /\ UNCHANGED <<op, pname, pconn, snapshot, swept, ret, nops>>
    /\ UNCHANGED nonConnVars

\* Mutant of DisconnectAllBody: the loop runs over self.connections itself,
\* which ends it with the first deletion, so that only the first name is
\* visited.
DisconnectAllBodyLive(p, queue) ==
    IF mgr_cleaning
    THEN /\ mgr_lock' = Tail(queue)
         /\ pc' = [pc EXCEPT ![p] = "idle"]
         /\ UNCHANGED <<mgr_cleaning, snapshot, swept>>
    ELSE /\ mgr_lock' = queue
         /\ mgr_cleaning' = TRUE
         /\ snapshot' = [snapshot EXCEPT
                           ![p] = IF order = <<>> THEN <<>>
                                  ELSE <<Head(order)>>]
         /\ swept' = [c \in Conns |->
                        IF c \in {connections[n] : n \in Names}
                        THEN swept[c] + 1 ELSE swept[c]]
         /\ pc' = [pc EXCEPT ![p] = "da_next"]

\* disconnect_all (lines 203-221) from the point where caller p holds the
\* manager's lock: the names are copied (line 214) and the loop starts.
DisconnectAllBody(p, queue) ==
    IF mgr_cleaning
    THEN /\ mgr_lock' = Tail(queue)
         /\ pc' = [pc EXCEPT ![p] = "idle"]
         /\ UNCHANGED <<mgr_cleaning, snapshot, swept>>
    ELSE /\ mgr_lock' = queue
         /\ mgr_cleaning' = TRUE
         /\ snapshot' = [snapshot EXCEPT ![p] = order]
         /\ swept' = [c \in Conns |->
                        IF c \in {connections[n] : n \in Names}
                        THEN swept[c] + 1 ELSE swept[c]]
         /\ pc' = [pc EXCEPT ![p] = "da_next"]

\* Mutant of DisconnectAll: neither the lock nor the flag is looked at.
DisconnectAllUnguarded(p) ==
    /\ Begin(p, "disconnect_all", pname[p])
    /\ mgr_lock' = Append(mgr_lock, p)
    /\ mgr_cleaning' = TRUE
    /\ snapshot' = [snapshot EXCEPT ![p] = order]
    /\ swept' = [c \in Conns |->
                   IF c \in {connections[n] : n \in Names}
                   THEN swept[c] + 1 ELSE swept[c]]
    /\ pc' = [pc EXCEPT ![p] = "da_next"]
    /\ UNCHANGED <<connections, order, sessions, nconns, cname, session,
                   init_task, cancel_req, init_complete, cleanup_lock,
                   is_cleaning_up, exit_stack, registered, releasers,
                   teardowns, attempts>>
    /\ err' = [err EXCEPT ![p] = FALSE]
    /\ UNCHANGED <<pconn, ret>>
    /\ UNCHANGED nonConnVars

\* A caller calls disconnect_all().
DisconnectAll(p) ==
    /\ Begin(p, "disconnect_all", pname[p])
    /\ IF mgr_lock = <<>>
       THEN DisconnectAllBody(p, <<p>>)
       ELSE /\ mgr_lock' = Append(mgr_lock, p)
            /\ pc' = [pc EXCEPT ![p] = "da_lock"]
            /\ UNCHANGED <<mgr_cleaning, snapshot, swept>>
    /\ UNCHANGED <<connections, order, sessions, nconns, cname, session,
                   init_task, cancel_req, init_complete, cleanup_lock,
                   is_cleaning_up, exit_stack, registered, releasers,
                   teardowns, attempts>>
    /\ err' = [err EXCEPT ![p] = FALSE]
    /\ UNCHANGED <<pconn, ret>>
    /\ UNCHANGED nonConnVars

\* The manager's lock has passed to the waiting caller.
DisconnectAllLocked(p) ==
    /\ Quiet
    /\ pc[p] = "da_lock"
    /\ Head(mgr_lock) = p
    /\ DisconnectAllBody(p, mgr_lock)
    /\ UNCHANGED <<connections, order, sessions, nconns, cname, session,
                   init_task, cancel_req, init_complete, cleanup_lock,
                   is_cleaning_up, exit_stack, registered, releasers,
                   teardowns, attempts>>
    /\ UNCHANGED <<op, pname, pconn, ret, err, nops>>
    /\ UNCHANGED nonConnVars

\* One iteration of the loop of lines 215-219, or, the names exhausted, the
\* finally clause of line 221 and the release of the manager's lock.
DisconnectAllNext(p) ==
    /\ pc[p] = "da_next"
    /\ IF snapshot[p] = <<>>
       THEN /\ mgr_cleaning' = FALSE
            /\ mgr_lock' = Tail(mgr_lock)
            /\ pc' = [pc EXCEPT ![p] = "idle"]
            /\ UNCHANGED <<connections, order, sessions, session, teardowns,
                           is_cleaning_up, cleanup_lock, cancel_req, pconn,
                           pname, snapshot, swept, err, exit_stack, releasers>>
       ELSE /\ snapshot' = [snapshot EXCEPT ![p] = Tail(@)]
            /\ UNCHANGED swept
            /\ pname' = [pname EXCEPT ![p] = Head(snapshot[p])]
            /\ DisconnectEnter(p, Head(snapshot[p]), FALSE)
            /\ UNCHANGED <<mgr_lock, mgr_cleaning>>
    /\ UNCHANGED <<nconns, cname, init_task, init_complete, registered,
                   attempts>>
    /\ UNCHANGED <<op, ret, nops>>
    /\ UNCHANGED nonConnVars

(***************************************************************************)
(* The specification of part 1                                             *)
(***************************************************************************)

vars == <<connVars, procVars, toolVars, agentVars, parseVars, regVars,
          capVars>>

Next ==
    \/ \E c \in Conns : TaskStart(c)
    \/ \E c \in Conns : TaskTransport(c)
    \/ \E c \in Conns : TaskSession(c)
    \/ \E c \in Conns : TaskHandshake(c)
    \/ \E c \in Conns : TaskCancel(c)
    \/ \E c \in Conns : TaskRelease(c)
    \/ \E p \in Procs, n \in Names : ConnectServer(p, n)
    \/ \E p \in Procs : ConnectReturn(p)
    \/ \E p \in Procs, c \in Conns : InitializeCall(p, c)
    \/ \E p \in Procs : InitializeReturn(p)
    \/ \E p \in Procs, n \in Names : GetSession(p, n)
    \/ \E p \in Procs : GetSessionReturn(p)
    \/ \E p \in Procs, n \in Names : DisconnectServer(p, n)
    \/ \E p \in Procs : CleanupLocked(p)
    \/ \E p \in Procs : CleanupResume(p)
    \/ \E p \in Procs : DisconnectAll(p)
    \/ \E p \in Procs : DisconnectAllLocked(p)
    \/ \E p \in Procs : DisconnectAllNext(p)

Spec == Init /\ [][Next]_vars

(***************************************************************************)
(* The lifecycle state of a connection, read off its fields                *)
(***************************************************************************)

\* The connections that exist.
Created == 1..nconns

\* Idle: no task yet.  Initializing: the task has not set the event.  Ready:
\* the task waits in await asyncio.Future().  Failed: the task raised.
\* CleaningUp: cleanup() is between lines 133 and 157.  Closed: cleanup() has
\* run its teardown.
State(c) ==
    IF is_cleaning_up[c] THEN "CleaningUp"
    ELSE IF teardowns[c] > 0 THEN "Closed"
    ELSE CASE init_task[c] = "none" -> "Idle"
           [] init_task[c] \in {"created", "transport", "session",
                                "handshake"} -> "Initializing"
           [] init_task[c] = "serving" -> "Ready"
           [] init_task[c] \in {"failing", "failed"} -> "Failed"
           [] OTHER -> "CleaningUp"

\* A connection of name n is being, or has been, torn down.
TornDown(n) ==
    \E c \in Created :
        cname[c] = n /\ (is_cleaning_up[c] \/ teardowns[c] > 0)

\* The connections created for name n.
ConnsOf(n) == {c \in Created : cname[c] = n}

\* Caller p is suspended on the event of connection pconn[p].
Waiting(p) == pc[p] \in {"cs_wait", "gs_wait"}

(***************************************************************************)
(* Claims about connections                                                *)
(***************************************************************************)

\* C1: as long as no teardown of a name has begun, connect calls for that
\* name, concurrent or not, create one ServerConnection and start one
\* initialization task; a caller that waits, waits on that connection's
\* event, and every caller that has returned got that connection, in state
\* Ready or Failed.
C1_ConnectOnce ==
    /\ \A c \in Conns : attempts[c] <= 1
    /\ \A n \in Names : ~TornDown(n) => Cardinality(ConnsOf(n)) <= 1
    /\ \A p \in Procs :
          op[p] = "connect" /\ ~TornDown(pname[p]) =>
             /\ pc[p] = "cs_wait" => pconn[p] = connections[pname[p]]
             /\ pc[p] = "idle" =>
                   /\ ret[p] # NoConn
                   /\ ret[p] = connections[pname[p]]
                   /\ State(ret[p]) \in {"Ready", "Failed"}

\* Two callers are suspended in connect_server for the same name, on the same
\* connection, whose single task is running.
C1_Witness ==
    /\ pc["p1"] = "cs_wait" /\ pc["p2"] = "cs_wait"
    /\ op["p1"] = "connect" /\ op["p2"] = "connect"
    /\ pname["p1"] = pname["p2"]
    /\ pconn["p1"] = pconn["p2"]
    /\ attempts[pconn["p1"]] = 1
    /\ init_task[pconn["p1"]] = "handshake"

\* C2: a caller suspended on a connection's readiness signal resumes once
\* the initialization has finished, also when cleanup() cancelled it.  In the
\* form a finite run refutes: when the task is done the event is set, so that
\* every waiter can resume (nothing but the task ever sets the event).
C2_WaitersResume ==
    \A p \in Procs : Waiting(p) /\ Done(pconn[p]) => init_complete[pconn[p]]

\* C3: a failed initialization sets the event, leaves the session None, never
\* registers the name in the context's sessions, and has released what it
\* had acquired when the task ends with the failure.
C3_FailureSignalled ==
    \A c \in Created :
        init_task[c] \in {"failing", "failed"} =>
           /\ init_complete[c]
           /\ session[c] = NoConn
           /\ ~registered[c]
           /\ sessions[cname[c]] # c
           /\ init_task[c] = "failed" => exit_stack[c] = {}

\* A handshake failed after the transport and the session were entered, they
\* were released by the task, and a caller of connect_server has returned
\* with the failed connection.
C3_Witness ==
    \E c \in Created, p \in Procs :
        /\ init_task[c] = "failed"
        /\ releasers[c] = {"task"}
        /\ op[p] = "connect" /\ pc[p] = "idle" /\ ret[p] = c
        /\ State(c) = "Failed"

\* C4: a connection's session is not None only while the connection is
\* Ready.
C4_SessionOnlyWhenReady ==
    \A c \in Created : session[c] # NoConn => State(c) = "Ready"

\* C5: however often cleanup() is called on a connection, in sequence or
\* concurrently, its teardown runs once.
C5_OneTeardown == \A c \in Conns : teardowns[c] <= 1

\* C6: the contexts of the exit stack are closed by the task that entered
\* them and by nobody else, and they are closed when that task is done.
C6_ReleasedInTask ==
    \A c \in Conns :
        /\ releasers[c] \subseteq {"task"}
        /\ Done(c) => exit_stack[c] = {}

\* A Ready connection was cancelled by cleanup(), its task closed the exit
\* stack and ended, and cleanup() has returned.
C6_Witness ==
    \E c \in Created :
        /\ registered[c]
        /\ init_task[c] = "cancelled"
        /\ releasers[c] = {"task"}
        /\ teardowns[c] = 1

\* C7: cleanup() runs its teardown only when the task has stopped and its
\* resources are released; after the step the context has no session for the
\* name, the session is None and cleanup() is over.
C7_TeardownAfterTask ==
    [][\A c \in Conns :
          teardowns'[c] > teardowns[c] =>
             /\ Done(c)
             /\ exit_stack[c] = {}
             /\ sessions'[cname[c]] = NoConn
             /\ session'[c] = NoConn
             /\ ~is_cleaning_up'[c]]_vars

\* A connection was cancelled in the middle of its handshake and torn down by
\* a disconnect_server that has returned.
C7_Witness ==
    \E c \in Created, p \in Procs :
        /\ teardowns[c] = 1
        /\ init_task[c] = "cancelled"
        /\ ~registered[c]
        /\ "task" \in releasers[c]
        /\ op[p] = "disconnect" /\ pc[p] = "idle" /\ pname[p] = cname[c]
        /\ connections[cname[c]] = NoConn

\* Caller p starts operation o in this step: it was idle and its operation
\* or its argument changes.
Starts(p, o) ==
    /\ pc[p] = "idle"
    /\ op'[p] = o
    /\ op[p] # o \/ pname'[p] # pname[p]

\* C19: get_session(name) returns None in the step of the call when name is
\* not in self.connections; otherwise it returns only once the connection's
\* event is set, what it returns is the connection's session at that moment,
\* this is None when the initialisation has failed, and nothing is raised.
C19_GetSession ==
    [][\A p \in Procs :
          /\ Starts(p, "get") =>
                LET c == connections[pname'[p]]
                IN  /\ err'[p] = err[p]
                    /\ IF c = NoConn
                       THEN pc'[p] = "idle" /\ ret'[p] = NoConn
                       ELSE IF init_complete[c]
                       THEN /\ pc'[p] = "idle"
                            /\ ret'[p] = session[c]
                            /\ init_task[c] \in {"failing", "failed"} =>
                                  ret'[p] = NoConn
                       ELSE pc'[p] = "gs_wait" /\ pconn'[p] = c
          /\ pc[p] = "gs_wait" /\ pc'[p] # "gs_wait" =>
                /\ pc'[p] = "idle"
                /\ err'[p] = err[p]
                /\ init_complete[pconn[p]]
                /\ ret'[p] = session[pconn[p]]
                /\ init_task[pconn[p]] \in {"failing", "failed"} =>
                      ret'[p] = NoConn]_vars

\* A get_session has returned None for a registered connection whose
\* initialisation failed.
C19_Witness ==
    \E p \in Procs :
        /\ op[p] = "get" /\ pc[p] = "idle"
        /\ pconn[p] # NoConn
        /\ connections[pname[p]] = pconn[p]
        /\ init_task[pconn[p]] = "failed"
        /\ init_complete[pconn[p]]
        /\ ret[p] = NoConn
        /\ ~err[p]

\* C20: a disconnect_server(name) for a name that is not in self.connections
\* returns in the step of the call, raises nothing and changes neither
\* self.connections nor the context's sessions; one for a registered name
\* has, when it ends, run cleanup()'s teardown on the connection that was
\* registered, and the name is no longer in self.connections.
C20_DisconnectServer ==
    [][\A p \in Procs :
          /\ Starts(p, "disconnect") /\ connections[pname'[p]] = NoConn =>
                /\ pc'[p] = "idle"
                /\ ~err'[p]
                /\ connections' = connections
                /\ sessions' = sessions
                /\ session' = session /\ teardowns' = teardowns
          /\ Starts(p, "disconnect") /\ connections[pname'[p]] # NoConn =>
                /\ pconn'[p] = connections[pname'[p]]
                /\ pc'[p] \in {"idle", "ds_lock", "ds_task"}
                /\ pc'[p] = "idle" =>
                      /\ teardowns'[pconn'[p]] = teardowns[pconn'[p]] + 1
                      /\ connections'[pname'[p]] = NoConn
          /\ pc[p] \in {"ds_lock", "ds_task"}
             /\ pc'[p] \notin {"ds_lock", "ds_task"} =>
                /\ teardowns'[pconn[p]] = teardowns[pconn[p]] + 1
                /\ session'[pconn[p]] = NoConn
                /\ connections'[pname[p]] = NoConn]_vars

\* A disconnect_server of a connection that was serving has returned, and so
\* has one for a name that was never connected.
C20_Witness ==
    \E p, q \in Procs :
        /\ op[p] = "disconnect" /\ pc[p] = "idle" /\ ~err[p]
        /\ pconn[p] # NoConn
        /\ cname[pconn[p]] = pname[p]
        /\ registered[pconn[p]]
        /\ teardowns[pconn[p]] = 1
        /\ connections[pname[p]] = NoConn
        /\ op[q] = "disconnect" /\ pc[q] = "idle" /\ ~err[q]
        /\ \A c \in Created : cname[c] # pname[q]

\* C21: when disconnect_all has gone through its names and is about to
\* return, every connection whose name it copied at the start has been torn
\* down and is neither in self.connections nor in the context's sessions,
\* whatever errors the way there raised; what self.connections and the
\* sessions hold then was connected after the copy was made.
C21_DisconnectAllSweeps ==
    \A p \in Procs :
        pc[p] = "da_next" /\ snapshot[p] = <<>> =>
           /\ \A c \in Created :
                 swept[c] > 0 =>
                    /\ teardowns[c] >= 1
                    /\ session[c] = NoConn
                    /\ connections[cname[c]] # c
                    /\ sessions[cname[c]] # c
           /\ \A n \in Names :
                 /\ connections[n] # NoConn => swept[connections[n]] = 0
                 /\ sessions[n] # NoConn => swept[sessions[n]] = 0

\* A disconnect_all over two connections has returned; the disconnect_server
\* of another caller was tearing one of them down when disconnect_all came
\* to it and deleted its name first, so that line 201 raised in
\* disconnect_all's call; the other connection was torn down all the same.
C21_Witness ==
    \E p, q \in Procs :
        /\ op[p] = "disconnect_all" /\ pc[p] = "idle"
        /\ op[q] = "disconnect" /\ pc[q] = "idle" /\ ~err[q]
        /\ pconn[q] # NoConn
        /\ swept[pconn[q]] = 1
        /\ teardowns[pconn[q]] = 2
        /\ \E c \in Created :
              c # pconn[q] /\ swept[c] = 1 /\ teardowns[c] = 1
        /\ \A n \in Names : connections[n] = NoConn /\ sessions[n] = NoConn

\* The callers that are inside disconnect_all's locked block.
InDisconnectAll ==
    {p \in Procs : /\ op[p] = "disconnect_all"
                   /\ pc[p] \in {"da_next", "ds_lock", "ds_task"}}

\* C22: at most one caller is inside disconnect_all's block, a second one
\* waits for the lock while the first holds it, no connection is among the
\* names copied by two calls (a later call copies only what was connected
\* since, so nothing is torn down again by it), and no call raises.
C22_DisconnectAllOnce ==
    /\ Cardinality(InDisconnectAll) <= 1
    /\ \A c \in Conns : swept[c] <= 1
    /\ \A p \in Procs :
          /\ op[p] = "disconnect_all" => ~err[p]
          /\ pc[p] = "da_lock" =>
                /\ \E i \in 1..Len(mgr_lock) : mgr_lock[i] = p
                /\ Head(mgr_lock) = p => InDisconnectAll = {}
          /\ p \in InDisconnectAll => mgr_cleaning /\ Head(mgr_lock) = p

\* Two calls overlap: one is tearing down a connection that was serving,
\* the other waits for the lock.
C22_Witness ==
    \E p, q \in Procs :
        /\ op[p] = "disconnect_all" /\ pc[p] = "ds_task"
        /\ registered[pconn[p]]
        /\ swept[pconn[p]] = 1
        /\ op[q] = "disconnect_all" /\ pc[q] = "da_lock"

\* C23: when initialization succeeds, the session is stored on the connection
\* and registered in the context by the time the event is set, so an event
\* that is not set means no stored session and no context entry; get_session
\* never returns a session of a connection whose event is not set.
C23_SessionBeforeSignal ==
    /\ \A c \in Conns :
          /\ init_task[c] = "serving" =>
                init_complete[c] /\ registered[c] /\ session[c] = c
          /\ ~init_complete[c] =>
                /\ session[c] = NoConn
                /\ ~registered[c]
                /\ \A n \in Names : sessions[n] # c
    /\ \A p \in Procs :
          (op[p] = "get" /\ pc[p] = "idle" /\ ret[p] # NoConn) =>
             init_complete[ret[p]] /\ registered[ret[p]]

\* get_session returned the session of a connection that another caller's
\* connect_server initialized and that is still registered and serving.
C23_Witness ==
    \E p \in Procs :
        /\ op[p] = "get" /\ pc[p] = "idle"
        /\ ret[p] # NoConn /\ ret[p] = pconn[p]
        /\ init_task[ret[p]] = "serving"
        /\ sessions[cname[ret[p]]] = ret[p]
        /\ \E q \in Procs \ {p} : op[q] = "connect" /\ pconn[q] = ret[p]

\* The lifecycle steps the specification allows.
LifecycleSteps ==
    {<<"Idle", "Initializing">>, <<"Initializing", "Ready">>,
     <<"Initializing", "CleaningUp">>, <<"Ready", "CleaningUp">>,
     <<"CleaningUp", "Closed">>, <<"Initializing", "Failed">>}

\* C24: a connection changes state only along Idle -> Initializing -> Ready,
\* Initializing or Ready -> CleaningUp -> Closed and Initializing -> Failed,
\* so Failed and Closed are never left; _initialize_impl is started at most
\* once per connection, and initialize() returns only once the event is set.
C24_Lifecycle ==
    [][/\ \A c \in Conns :
             State(c)' # State(c) => <<State(c), State(c)'>> \in LifecycleSteps
       /\ \A c \in Conns : attempts'[c] <= 1
       /\ \A p \in Procs :
             (op'[p] = "initialize" /\ pc'[p] = "idle") =>
                init_complete'[pconn'[p]]]_vars

\* The steps cleanup() takes on a connection whose initialization failed:
\* its task is cancelled while it still closes the exit stack (Failed to
\* CleaningUp), or, the task being done, the teardown runs at once.
FailedCleanupSteps ==
    {<<"Failed", "CleaningUp">>, <<"Failed", "Closed">>}

\* C24, amended: a connection changes state only along the steps of the
\* specification and the cleanup of a failed connection; it never returns to
\* Idle, Initializing or Ready, _initialize_impl is started at most once per
\* connection, and initialize() returns only once the event is set.
C24_LifecycleWithCleanup ==
    [][/\ \A c \in Conns :
             State(c)' # State(c) =>
                <<State(c), State(c)'>> \in LifecycleSteps \cup FailedCleanupSteps
       /\ \A c \in Conns : attempts'[c] <= 1
       /\ \A p \in Procs :
             (op'[p] = "initialize" /\ pc'[p] = "idle") =>
                init_complete'[pconn'[p]]]_vars

\* initialize() was called on a failed connection and returned without
\* starting the task again; the connection was then cleaned up.
C24_Witness ==
    \E p \in Procs :
        /\ op[p] = "initialize" /\ pc[p] = "idle"
        /\ init_task[pconn[p]] = "failed"
        /\ attempts[pconn[p]] = 1
        /\ teardowns[pconn[p]] = 1
        /\ State(pconn[p]) = "Closed"

\* C34: an entry of the context's sessions is written only by the connection
\* it belongs to: a name gets an entry only in the step in which the
\* connection of that name completes its handshake, an entry is never
\* replaced by another one, and an entry is removed only by a teardown of the
\* connection that is in it.
C34_SessionsOwned ==
    [][\A n \in Names :
          sessions'[n] # sessions[n] =>
             /\ sessions'[n] # NoConn =>
                   /\ sessions[n] = NoConn
                   /\ cname[sessions'[n]] = n
                   /\ init_task[sessions'[n]] = "handshake"
                   /\ init_task'[sessions'[n]] = "serving"
             /\ sessions'[n] = NoConn =>
                   teardowns'[sessions[n]] = teardowns[sessions[n]] + 1]_vars

\* A connection that is being initialized or is ready.
Live(c) == c \in Created /\ State(c) \in {"Initializing", "Ready"}

\* C37: disconnect_server removes from self.connections only the connection
\* it has cleaned up, never one created by a later connect: every connection
\* that is Initializing or Ready is the one self.connections holds for its
\* name, and no name has two such connections.
C37_LiveIsMapped ==
    /\ \A c \in Conns : Live(c) => connections[cname[c]] = c
    /\ \A c, d \in Conns :
          (Live(c) /\ Live(d) /\ cname[c] = cname[d]) => c = d

\* Callers p and q are both in, or back from, a disconnect_server of the same
\* connection.
BothDisconnect(p, q) ==
    /\ p # q
    /\ op[p] = "disconnect" /\ op[q] = "disconnect"
    /\ pname[p] = pname[q]
    /\ pconn[p] # NoConn /\ pconn[p] = pconn[q]
    /\ connections[pname[p]] \in {NoConn, pconn[p]}

\* C38: two disconnect_server calls for the same registered name that run
\* concurrently both return without raising, the connection's teardown runs
\* once, and when both have returned the name is not in self.connections.
C38_DisconnectTwice ==
    \A p, q \in Procs :
        BothDisconnect(p, q) =>
           /\ ~err[p] /\ ~err[q]
           /\ teardowns[pconn[p]] <= 1
           /\ (pc[p] = "idle" /\ pc[q] = "idle") =>
                 connections[pname[p]] = NoConn

(***************************************************************************)
(* Part 2: Tool.execute (src/src/tools/tool.py), run by a caller task      *)
(* against the connection manager of part 1                                *)
(***************************************************************************)

\* The default of the parameter retries.
Retries == 2

\* The history of one execute: get_session calls, sleeps, call_tool calls,
\* and whether a get_session returned None.
History(p) ==
    [lookups |-> lookups[p], sleeps |-> sleeps[p], calls |-> calls[p],
     nosession |-> nosession[p]]
NoHistory ==
    [lookups |-> 0, sleeps |-> 0, calls |-> 0, nosession |-> FALSE]

Record(p, h) ==
    /\ lookups' = [lookups EXCEPT ![p] = h.lookups]
    /\ sleeps' = [sleeps EXCEPT ![p] = h.sleeps]
    /\ calls' = [calls EXCEPT ![p] = h.calls]
    /\ nosession' = [nosession EXCEPT ![p] = h.nosession]

\* Mutant of Failure: the bound is tested with <=.
FailureOnceMore(p, a, h) ==
    /\ attempt' = [attempt EXCEPT ![p] = a + 1]
    /\ IF a + 1 <= Retries
       THEN /\ pc' = [pc EXCEPT ![p] = "ex_sleep"]
            /\ err' = [err EXCEPT ![p] = FALSE]
            /\ Record(p, [h EXCEPT !.sleeps = @ + 1])
       ELSE /\ pc' = [pc EXCEPT ![p] = "idle"]
            /\ err' = [err EXCEPT ![p] = TRUE]
            /\ Record(p, h)

\* The except clause of lines 81-92 after a failed attempt, a attempts
\* having failed before: sleep and go round the loop again, or, the attempts
\* used up, re-raise.
Failure(p, a, h) ==
    /\ attempt' = [attempt EXCEPT ![p] = a + 1]
    /\ IF a + 1 < Retries
       THEN /\ pc' = [pc EXCEPT ![p] = "ex_sleep"]
            /\ err' = [err EXCEPT ![p] = FALSE]
            /\ Record(p, [h EXCEPT !.sleeps = @ + 1])
       ELSE /\ pc' = [pc EXCEPT ![p] = "idle"]
            /\ err' = [err EXCEPT ![p] = TRUE]
            /\ Record(p, h)

\* The session that get_session returned is tested (line 70): None raises
\* RuntimeError inside the try block; otherwise call_tool is awaited.
UseSession(p, a, s, h) ==
    IF s = NoConn
    THEN Failure(p, a, [h EXCEPT !.nosession = TRUE])
    ELSE /\ pc' = [pc EXCEPT ![p] = "ex_call"]
         /\ err' = [err EXCEPT ![p] = FALSE]
         /\ attempt' = [attempt EXCEPT ![p] = a]
         /\ Record(p, [h EXCEPT !.calls = @ + 1])

\* One round of the loop of lines 65-76 for the tool of server n, up to its
\* first suspension: get_session(n), then the test of the session.
Attempt(p, n, a, h) ==
    LET h1 == [h EXCEPT !.lookups = @ + 1] IN
    IF connections[n] = NoConn
    THEN /\ UseSession(p, a, NoConn, h1)
         /\ UNCHANGED pconn
    ELSE /\ pconn' = [pconn EXCEPT ![p] = connections[n]]
         /\ IF init_complete[connections[n]]
            THEN UseSession(p, a, session[connections[n]], h1)
            ELSE /\ pc' = [pc EXCEPT ![p] = "ex_wait"]
                 /\ err' = [err EXCEPT ![p] = FALSE]
                 /\ attempt' = [attempt EXCEPT ![p] = a]
                 /\ Record(p, h1)

\* A caller calls execute on a tool whose server_name is n (lines 55-68).
Execute(p, n) ==
    /\ Begin(p, "execute", n)
    /\ Attempt(p, n, 0, NoHistory)
    /\ ret' = [ret EXCEPT ![p] = NoConn]
    /\ UNCHANGED <<connVars, snapshot, swept>>
    /\ UNCHANGED nonToolVars

\* The event is set: get_session returns connection.session as it is now.
ExecuteSession(p) ==
    /\ Quiet
    /\ pc[p] = "ex_wait"
    /\ init_complete[pconn[p]]
    /\ UseSession(p, attempt[p], session[pconn[p]], History(p))
    /\ UNCHANGED <<connVars, op, pname, pconn, snapshot, swept, ret, nops>>
    /\ UNCHANGED nonToolVars

\* A variant of ExecuteCall in which call_tool can return a result after the
\* session's contexts were closed.
ExecuteCallOnClosed(p) ==
    /\ Quiet
    /\ pc[p] = "ex_call"
    /\ \E ok \in BOOLEAN :
          IF ok
          THEN /\ pc' = [pc EXCEPT ![p] = "idle"]
               /\ ret' = [ret EXCEPT ![p] = pconn[p]]
               /\ UNCHANGED <<attempt, lookups, sleeps, calls, nosession,
                              err>>
          ELSE /\ Failure(p, attempt[p], History(p))
               /\ UNCHANGED ret
    /\ UNCHANGED <<connVars, op, pname, pconn, snapshot, swept, nops>>
    /\ UNCHANGED nonToolVars

\* Mutant of ExecuteCall: the result is kept but the loop is not left.
ExecuteCallGoesOn(p) ==
    /\ Quiet
    /\ pc[p] = "ex_call"
    /\ \E ok \in BOOLEAN :
          IF ok /\ "session" \in exit_stack[pconn[p]]
          THEN /\ ret' = [ret EXCEPT ![p] = pconn[p]]
               /\ Attempt(p, pname[p], attempt[p], History(p))
          ELSE /\ Failure(p, attempt[p], History(p))
               /\ UNCHANGED ret
    /\ UNCHANGED <<connVars, op, pname, pconn, snapshot, swept, nops>>
    /\ UNCHANGED nonToolVars

\* session.call_tool returns the result (lines 76-79) or raises.  It can
\* return a result only while the session's contexts are still open.
ExecuteCall(p) ==
    /\ Quiet
    /\ pc[p] = "ex_call"
    /\ \E ok \in BOOLEAN :
          IF ok /\ "session" \in exit_stack[pconn[p]]
          THEN /\ pc' = [pc EXCEPT ![p] = "idle"]
               /\ ret' = [ret EXCEPT ![p] = pconn[p]]
               /\ UNCHANGED <<attempt, lookups, sleeps, calls, nosession,
                              err>>
          ELSE /\ Failure(p, attempt[p], History(p))
               /\ UNCHANGED ret
    /\ UNCHANGED <<connVars, op, pname, pconn, snapshot, swept, nops>>
    /\ UNCHANGED nonToolVars

\* asyncio.sleep(delay) is over (line 89): the next round of the loop.
ExecuteRetry(p) ==
    /\ Quiet
    /\ pc[p] = "ex_sleep"
    /\ Attempt(p, pname[p], attempt[p], History(p))
    /\ UNCHANGED <<connVars, op, pname, snapshot, swept, ret, nops>>
    /\ UNCHANGED nonToolVars

\* Tool.execute in an environment of connect_server and disconnect_server
\* calls.
NextTool ==
    \/ \E c \in Conns : TaskStart(c)
    \/ \E c \in Conns : TaskTransport(c)
    \/ \E c \in Conns : TaskSession(c)
    \/ \E c \in Conns : TaskHandshake(c)
    \/ \E c \in Conns : TaskCancel(c)
    \/ \E c \in Conns : TaskRelease(c)
    \/ \E p \in Procs, n \in Names : ConnectServer(p, n)
    \/ \E p \in Procs : ConnectReturn(p)
    \/ \E p \in Procs, n \in Names : DisconnectServer(p, n)
    \/ \E p \in Procs : CleanupLocked(p)
    \/ \E p \in Procs : CleanupResume(p)
    \/ \E p \in Procs, n \in Names : Execute(p, n)
    \/ \E p \in Procs : ExecuteSession(p)
    \/ \E p \in Procs : ExecuteCall(p)
    \/ \E p \in Procs : ExecuteRetry(p)

SpecTool == Init /\ [][NextTool]_vars

(***************************************************************************)
(* Claims about Tool.execute                                               *)
(***************************************************************************)

\* C10: when get_session returns None, execute fails at once: the failure is
\* raised to the caller in the same step, with no sleep and no further
\* lookup.
C10_NoSessionFailsAtOnce ==
    \A p \in Procs :
        op[p] = "execute" /\ nosession[p] => pc[p] = "idle" /\ err[p]

\* C11: an execute makes at most Retries attempts (get_session, call_tool);
\* every failed attempt but the last is followed by one sleep of `delay` and
\* is not raised; the failure is raised to the caller exactly when attempt
\* number Retries has failed.
C11_RetriesBounded ==
    \A p \in Procs :
        op[p] = "execute" =>
           /\ attempt[p] <= Retries
           /\ lookups[p] <= Retries
           /\ calls[p] <= Retries
           /\ sleeps[p] = IF attempt[p] = Retries THEN Retries - 1
                          ELSE attempt[p]
           /\ err[p] <=> (pc[p] = "idle" /\ attempt[p] = Retries)
           /\ err[p] => lookups[p] = Retries

\* call_tool has failed on every one of the Retries attempts and the last
\* failure was raised.
C11_Witness ==
    \E p \in Procs :
        /\ op[p] = "execute" /\ pc[p] = "idle" /\ err[p]
        /\ calls[p] = Retries
        /\ lookups[p] = Retries
        /\ sleeps[p] = Retries - 1
        /\ ~nosession[p]

\* C12: no call_tool is made after one that succeeded, and an execute that
\* has returned without error returns the result of its last attempt, the
\* attempts before it having failed and been followed by one sleep each.
C12_SuccessAfterFailure ==
    \A p \in Procs :
        op[p] = "execute" =>
           /\ calls[p] <= attempt[p] + 1
           /\ pc[p] = "idle" /\ ~err[p] =>
                 /\ ret[p] # NoConn /\ ret[p] = pconn[p]
                 /\ attempt[p] < Retries
                 /\ lookups[p] = attempt[p] + 1
                 /\ sleeps[p] = attempt[p]
                 /\ calls[p] >= 1

\* call_tool failed on the first attempt and succeeded on the second.
C12_Witness ==
    \E p \in Procs :
        /\ op[p] = "execute" /\ pc[p] = "idle" /\ ~err[p]
        /\ ret[p] # NoConn
        /\ attempt[p] = 1
        /\ calls[p] = 2
        /\ sleeps[p] = 1

\* Caller p is inside an execute (between its suspension points).
InFlight(p) ==
    op[p] = "execute" /\ pc[p] \in {"ex_wait", "ex_call", "ex_sleep"}

\* The session that p's execute last looked up was closed by a teardown of
\* its connection, and the server's name has not been connected again.
SessionGone(p) ==
    /\ pconn[p] # NoConn
    /\ registered[pconn[p]]
    /\ "session" \notin exit_stack[pconn[p]]
    /\ connections[pname[p]] \in {NoConn, pconn[p]}

max_tool_chain_length == 2
MaxTurns == 2

\* The replies of the model, by what process_llm_response finds in them:
\* text with no tool call, nothing at all, a call of a registered tool with
\* or without text around it, a call of a tool that is not registered with or
\* without text around it.
Replies == {"text", "empty", "text+call", "call", "text+unknown", "unknown"}

\* The replies drawn for the call of line 247, which is not parsed.
FinalReplies == {"text", "call"}

\* human_text.strip() is not empty (line 224): human_text is the reply less
\* the tool call (lines 54, 64).
HasText(r) == r \in {"text", "text+call", "text+unknown"}

\* What lines 51-68 and 87-89 find in the reply: no tool call, a call of a
\* tool the registry has, a call of a tool it has not.
CallOf(r) ==
    CASE r \in {"text", "empty"} -> "none"
      [] r \in {"text+call", "call"} -> "known"
      [] r \in {"text+unknown", "unknown"} -> "unknown"

Msg(role, content) == [role |-> role, content |-> content]
Out(what, reply) == [what |-> what, reply |-> reply]

\* Mutant of LoopContinues: the bound is tested with <=.
LoopContinuesOffByOne(itc, cl) == itc /\ cl <= max_tool_chain_length

\* The loop condition of line 216.
LoopContinues(itc, cl) == itc /\ cl < max_tool_chain_length

\* A variant of AfterLoop in which the oldest message is dropped when the
\* warning is appended.
AfterLoopTrims(msgs, cl, fb) ==
    IF cl >= max_tool_chain_length
    THEN /\ messages' = Append(Tail(msgs), Msg("system", "warning"))
         /\ fallbacks' = fb + 1
         /\ apc' = "final"
    ELSE /\ messages' = msgs
         /\ fallbacks' = fb
         /\ apc' = "input"

\* Lines 241-244, reached when the loop is left: at the bound a warning is
\* appended and a final reply requested; otherwise the turn is over.
AfterLoop(msgs, cl, fb) ==
    IF cl >= max_tool_chain_length
    THEN /\ messages' = Append(msgs, Msg("system", "warning"))
         /\ fallbacks' = fb + 1
         /\ apc' = "final"
    ELSE /\ messages' = msgs
         /\ fallbacks' = fb
         /\ apc' = "input"

\* The loop condition is tested: another get_response, or the loop is left.
NextRound(msgs, itc, cl, fb) ==
    IF LoopContinues(itc, cl)
    THEN /\ messages' = msgs
         /\ fallbacks' = fb
         /\ apc' = "llm"
    ELSE AfterLoop(msgs, cl, fb)

\* A variant of UserInput in which the chain counter is carried over from the
\* turn before.
UserInputKeepsCount ==
    /\ apc = "input"
    /\ turns < MaxTurns
    /\ turns' = turns + 1
    /\ chain_length' = chain_length
    /\ is_tool_call' = TRUE
    /\ final_response_shown' = FALSE
    /\ llm_response' = "none"
    /\ printed' = <<>>
    /\ execs' = 0
    /\ llm_calls' = 0
    /\ outcomes' = <<>>
    /\ NextRound(Append(messages, Msg("user", "input")), TRUE, chain_length, 0)
    /\ UNCHANGED nonAgentVars

\* The user enters a line (lines 203-216): the message is appended and the
\* loop's variables are reset.
UserInput ==
    /\ apc = "input"
    /\ turns < MaxTurns
    /\ turns' = turns + 1
    /\ chain_length' = 0
    /\ is_tool_call' = TRUE
    /\ final_response_shown' = FALSE
    /\ llm_response' = "none"
    /\ printed' = <<>>
    /\ execs' = 0
    /\ llm_calls' = 0
    /\ outcomes' = <<>>
    /\ NextRound(Append(messages, Msg("user", "input")), TRUE, 0, 0)
    /\ UNCHANGED nonAgentVars

\* The user enters quit or exit, or interrupts (lines 204-206, 252-254).
Quit ==
    /\ apc = "input"
    /\ apc' = "ended"
    /\ UNCHANGED <<messages, chain_length, is_tool_call,
                   final_response_shown, llm_response, turns, printed, execs,
                   llm_calls, fallbacks, outcomes>>
    /\ UNCHANGED nonAgentVars

\* Lines 223-244 for reply r, once process_llm_response has returned
\* is_tool_call = itc: the text is printed, the reply appended, then the
\* result appended and the chain counted, or the raw reply printed when
\* nothing was shown in the turn.
Round(r, itc, outcome) ==
    LET shown == final_response_shown \/ HasText(r)
        out == IF HasText(r) THEN Append(printed, Out("text", r))
               ELSE printed
        msgs == Append(messages, Msg("assistant", r))
    IN  /\ is_tool_call' = itc
        /\ outcomes' = Append(outcomes, outcome)
        /\ IF itc
           THEN /\ chain_length' = chain_length + 1
                /\ final_response_shown' = shown
                /\ printed' = out
                /\ NextRound(Append(msgs, Msg("system", "result")), itc,
                             chain_length + 1, fallbacks)
           ELSE /\ chain_length' = chain_length
                /\ final_response_shown' = TRUE
                /\ printed' = IF shown THEN out
                              ELSE Append(out, Out("raw", r))
                /\ NextRound(msgs, itc, chain_length, fallbacks)

\* Mutant of LLMReply: a call of a tool the registry has not counts as a
\* tool call.
LLMReplyUnknownCounts(r) ==
    /\ apc = "llm"
    /\ llm_calls' = llm_calls + 1
    /\ llm_response' = r
    /\ CASE CallOf(r) = "none" ->
              /\ Round(r, FALSE, "final")
              /\ UNCHANGED execs
         [] CallOf(r) = "unknown" ->
              /\ Round(r, TRUE, "unknown")
              /\ UNCHANGED execs
         [] CallOf(r) = "known" ->
              /\ apc' = "tool"
              /\ execs' = execs + 1
              /\ UNCHANGED <<messages, chain_length, is_tool_call,
                             final_response_shown, printed, fallbacks,
                             outcomes>>
    /\ UNCHANGED turns
    /\ UNCHANGED nonAgentVars

\* get_response returns r (line 218) and process_llm_response runs up to
\* its suspension (lines 51-68, 87-91): with no tool call the reply is final;
\* a tool the registry has not gives ("No tool found ...", False); a tool it
\* has is executed.
LLMReply(r) ==
    /\ apc = "llm"
    /\ llm_calls' = llm_calls + 1
    /\ llm_response' = r
    /\ CASE CallOf(r) = "none" ->
              /\ Round(r, FALSE, "final")
              /\ UNCHANGED execs
         [] CallOf(r) = "unknown" ->
              /\ Round(r, FALSE, "unknown")
              /\ UNCHANGED execs
         [] CallOf(r) = "known" ->
              /\ apc' = "tool"
              /\ execs' = execs + 1
              /\ UNCHANGED <<messages, chain_length, is_tool_call,
                             final_response_shown, printed, fallbacks,
                             outcomes>>
    /\ UNCHANGED turns
    /\ UNCHANGED nonAgentVars

\* A variant of ToolReturn in which the error of tool.execute is not caught:
\* it leaves start_conversation, whose try catches KeyboardInterrupt only.
ToolReturnRaises(ok) ==
    /\ apc = "tool"
    /\ IF ok
       THEN Round(llm_response, TRUE, "ok")
       ELSE /\ apc' = "ended"
            /\ outcomes' = Append(outcomes, "fail")
            /\ UNCHANGED <<messages, chain_length, is_tool_call,
                           final_response_shown, printed, fallbacks>>
    /\ UNCHANGED <<llm_response, turns, execs, llm_calls>>
    /\ UNCHANGED nonAgentVars

\* tool.execute returns or raises (lines 90-107): execute_tool_call returns
\* ("Tool execution result: ...", True), or ("Error executing tool: ...",
\* False).
ToolReturn(ok) ==
    /\ apc = "tool"
    /\ IF ok
       THEN Round(llm_response, TRUE, "ok")
       ELSE Round(llm_response, FALSE, "fail")
    /\ UNCHANGED <<llm_response, turns, execs, llm_calls>>
    /\ UNCHANGED nonAgentVars

\* Mutant of FinalReply: a tool call in the reply after the warning is
\* executed.
FinalReplyParsed(r) ==
    /\ apc = "final"
    /\ llm_calls' = llm_calls + 1
    /\ messages' = Append(messages, Msg("assistant", r))
    /\ printed' = Append(printed, Out("final", r))
    /\ apc' = "input"
    /\ execs' = IF CallOf(r) = "known" THEN execs + 1 ELSE execs
    /\ UNCHANGED <<chain_length, is_tool_call, final_response_shown,
                   llm_response, turns, fallbacks, outcomes>>
    /\ UNCHANGED nonAgentVars

\* Lines 247-250: the reply after the warning is appended and printed.
FinalReply(r) ==
    /\ apc = "final"
    /\ llm_calls' = llm_calls + 1
    /\ messages' = Append(messages, Msg("assistant", r))
    /\ printed' = Append(printed, Out("final", r))
    /\ apc' = "input"
    /\ UNCHANGED <<chain_length, is_tool_call, final_response_shown,
                   llm_response, turns, execs, fallbacks, outcomes>>
    /\ UNCHANGED nonAgentVars

NextAgent ==
    \/ UserInput
    \/ Quit
    \/ \E r \in Replies : LLMReply(r)
    \/ \E ok \in BOOLEAN : ToolReturn(ok)
    \/ \E r \in FinalReplies : FinalReply(r)

SpecAgent == Init /\ [][NextAgent]_vars

(***************************************************************************)
(* Claims about the agent's loop                                           *)
(***************************************************************************)

\* Every reply of the turn's loop so far was a call of a registered tool that
\* succeeded.
AllSucceeded == \A i \in 1..Len(outcomes) : outcomes[i] = "ok"

\* C8: in a turn where every reply is a call of a registered tool that
\* succeeds, the tool executions never exceed max_tool_chain_length, and the
\* final reply is requested (the branch of line 241, taken once) exactly when
\* max_tool_chain_length executions have happened; the turn ends only so.
C8_ChainBounded ==
    turns > 0 /\ AllSucceeded =>
       /\ execs <= max_tool_chain_length
       /\ fallbacks = IF Len(outcomes) = max_tool_chain_length THEN 1 ELSE 0
       /\ apc \in {"input", "final", "ended"} =>
             execs = max_tool_chain_length /\ fallbacks = 1

\* A turn of successful tool calls only is over: max_tool_chain_length
\* executions, one final reply printed.
C8_Witness ==
    /\ apc = "input"
    /\ turns > 0
    /\ AllSucceeded
    /\ Len(outcomes) = max_tool_chain_length
    /\ execs = max_tool_chain_length
    /\ fallbacks = 1
    /\ printed # <<>> /\ printed[Len(printed)].what = "final"

\* C9: after a reply whose tool failed, as after one whose tool succeeded,
\* a system message closes the messages, the failed call is counted in
\* chain_length, and another reply is requested from the model.
C9_FailureContinuesChain ==
    outcomes # <<>> /\ outcomes[Len(outcomes)] = "fail" =>
       /\ messages[Len(messages)].role = "system"
       /\ chain_length = Len(outcomes)
       /\ apc \in {"llm", "final"}

\* C13: after a reply that calls a tool the registry has not, the reply is
\* not a tool call and the turn's loop is over: no tool was executed for it,
\* chain_length counts only the successful calls before it, and no reply is
\* requested from the model after it, the one of line 247 included.
C13_UnknownToolEndsChain ==
    outcomes # <<>> /\ outcomes[Len(outcomes)] = "unknown" =>
       /\ ~is_tool_call
       /\ apc \in {"input", "ended"}
       /\ chain_length = Len(outcomes) - 1
       /\ execs = Len(outcomes) - 1
       /\ llm_calls = Len(outcomes)
       /\ fallbacks = 0

\* A turn of one successful tool call and then a call of a tool the registry
\* has not is over.
C13_Witness ==
    /\ apc = "input"
    /\ outcomes = <<"ok", "unknown">>
    /\ llm_response = "unknown"
    /\ execs = 1 /\ llm_calls = 2

\* The index in messages of the user message of the current turn.
LastUser ==
    CHOOSE i \in 1..Len(messages) :
        /\ messages[i].role = "user"
        /\ \A j \in (i + 1)..Len(messages) : messages[j].role # "user"

\* The number of replies of the current turn that have human-readable text.
TurnTexts ==
    Cardinality({i \in (LastUser + 1)..Len(messages) :
                    /\ messages[i].role = "assistant"
                    /\ HasText(messages[i].content)})

\* C14: when a reply of the turn's loop is not a tool call, the loop is over
\* and that reply was printed once, as its text or, without text, raw: it is
\* the last thing printed, after one text for each earlier reply of the turn
\* that had text.
C14_FinalShownOnce ==
    turns > 0 /\ outcomes # <<>> /\ outcomes[Len(outcomes)] # "ok" =>
       /\ apc \in {"input", "ended"}
       /\ fallbacks = 0
       /\ printed # <<>>
       /\ printed[Len(printed)] =
             Out(IF HasText(llm_response) THEN "text" ELSE "raw",
                 llm_response)
       /\ Len(printed) =
             TurnTexts - (IF HasText(llm_response) THEN 1 ELSE 0) + 1

\* C15: the branch of line 241 is taken, once, exactly when the loop is left
\* with every reply a successful tool call; then the warning is the last
\* message until one more reply arrives, which is appended as the
\* assistant's and printed without any tool being executed for it.
C15_FallbackOnlyAtBound ==
    turns > 0 =>
       /\ fallbacks <= 1
       /\ fallbacks = 1 <=>
             /\ apc \in {"final", "input", "ended"}
             /\ AllSucceeded
       /\ apc = "final" =>
             /\ fallbacks = 1
             /\ messages[Len(messages)] = Msg("system", "warning")
             /\ llm_calls = Len(outcomes)
       /\ fallbacks = 1 /\ apc # "final" =>
             /\ messages[Len(messages)].role = "assistant"
             /\ messages[Len(messages) - 1] = Msg("system", "warning")
             /\ printed[Len(printed)] =
                   Out("final", messages[Len(messages)].content)
             /\ llm_calls = Len(outcomes) + 1
             /\ execs = Len(outcomes)

\* The reply after the warning was a tool call: it was printed and no tool
\* was executed for it.
C15_Witness ==
    /\ apc = "input"
    /\ fallbacks = 1
    /\ messages[Len(messages)] = Msg("assistant", "call")
    /\ printed[Len(printed)] = Out("final", "call")
    /\ execs = max_tool_chain_length
    /\ llm_calls = max_tool_chain_length + 1

\* C31: when tool.execute raises, execute_tool_call returns an error string
\* with is_tool_call False: in that step the reply is appended as the
\* assistant's, the loop is left without the fallback and the conversation
\* is back at input(), ready for the next user turn.
C31_FailureKeepsConversation ==
    [][(apc = "tool" /\ outcomes' = Append(outcomes, "fail")) =>
          /\ apc' = "input"
          /\ is_tool_call' = FALSE
          /\ messages' = Append(messages, Msg("assistant", llm_response))
          /\ fallbacks' = fallbacks
          /\ turns' = turns]_vars

\* The tool of the first turn's reply failed and the second turn has begun:
\* the user's second message follows the assistant's reply with the call.
C31_Witness ==
    /\ turns = 2
    /\ apc = "llm"
    /\ Len(messages) = 4
    /\ messages[3] = Msg("assistant", "call")
    /\ messages[4] = Msg("user", "input")

\* C32: after a reply that calls a tool the registry has not, no reply is
\* requested in the same turn, and once the conversation has gone on the
\* assistant's message with that call is followed by a system message, the
\* feedback that no tool was found, which the next request carries.
C32_NoToolFoundNextTurn ==
    /\ (outcomes # <<>> /\ outcomes[Len(outcomes)] = "unknown") =>
          apc \notin {"llm", "tool", "final"}
    /\ \A i \in 1..Len(messages) :
          (/\ messages[i].role = "assistant"
           /\ CallOf(messages[i].content) = "unknown"
           /\ i < Len(messages)) =>
             messages[i + 1].role = "system"

\* Sequence s is an initial part of sequence t.
IsPrefix(s, t) ==
    /\ Len(s) <= Len(t)
    /\ \A i \in 1..Len(s) : s[i] = t[i]

\* C33: every step of the conversation leaves the messages it had in place
\* and only appends, so whatever is sent to the model extends what was sent
\* before; every tool result in the messages directly follows an assistant
\* message that holds a call of a registered tool.
C33_AppendOnly ==
    [][/\ IsPrefix(messages, messages')
       /\ \A i \in 1..Len(messages') :
             messages'[i] = Msg("system", "result") =>
                /\ i > 1
                /\ messages'[i - 1].role = "assistant"
                /\ CallOf(messages'[i - 1].content) = "known"]_vars

\* Two turns with a tool result, the warning and the reply after it in the
\* first: the second turn's request carries all of them, in order.
C33_Witness ==
    /\ turns = 2
    /\ apc = "llm"
    /\ Len(messages) >= 8
    /\ messages[2] = Msg("user", "input")
    /\ messages[4] = Msg("system", "result")
    /\ \E i \in 5..Len(messages) : messages[i] = Msg("system", "warning")
    /\ messages[Len(messages)] = Msg("user", "input")

\* The conversation with the replies of the model and the returns of
\* tool.execute arriving: a call that is waited for returns.
SpecAgentFair ==
    /\ SpecAgent
    /\ WF_vars(\E r \in Replies : LLMReply(r))
    /\ WF_vars(\E ok \in BOOLEAN : ToolReturn(ok))
    /\ WF_vars(\E r \in FinalReplies : FinalReply(r))

\* The turn is in its loop or at the reply after the warning.
InTurn == apc \in {"llm", "tool", "final"}

\* C36: in every turn the chain counter starts at 0, grows by at most one per
\* reply, with at most one tool executed per reply, and never exceeds
\* max_tool_chain_length; a turn executes at most max_tool_chain_length
\* tools and calls the model at most max_tool_chain_length + 1 times, and a
\* turn whose calls return comes to its end.
C36_BoundedTurn ==
    /\ [](/\ chain_length \in 0..max_tool_chain_length
          /\ execs <= max_tool_chain_length
          /\ llm_calls <= max_tool_chain_length + 1)
    /\ [][/\ turns' # turns => chain_length' = 0
          /\ turns' = turns =>
                /\ chain_length' \in {chain_length, chain_length + 1}
                /\ execs' \in {execs, execs + 1}
                /\ chain_length' # chain_length => llm_calls' = llm_calls
                /\ execs' # execs => llm_calls' = llm_calls + 1]_vars
    /\ (InTurn ~> ~InTurn)

\* The second turn is over after as many tool executions and model calls as
\* a turn can have, the first turn having had as many.
C36_Witness ==
    /\ turns = 2
    /\ apc = "input"
    /\ chain_length = max_tool_chain_length
    /\ execs = max_tool_chain_length
    /\ llm_calls = max_tool_chain_length + 1
    /\ Cardinality({i \in 1..Len(messages) :
                       messages[i] = Msg("system", "result")})
          = 2 * max_tool_chain_length

(***************************************************************************)
(* Part 4: Agent.process_llm_response (src/src/agent/agent.py) as a        *)
(* function of the reply.  A reply is a sequence of tokens: "{" and "}",   *)
(* ",", " " (whitespace), "x" (a word of text), and, for the inside of a   *)
(* JSON object, "T" ("tool": "t"), "S" ("arguments": 0), "K" ("k": 1) and  *)
(* "A" ("arguments": before a value).                                      *)
(***************************************************************************)

\* Bound: the pieces a reply is made of.
MaxSegs == 3

\* The pieces: text, whitespace, lone braces, {x} (not JSON), {"tool": "t"}
\* (no arguments), a call with an argument object, a call with a scalar for
\* arguments, a call whose arguments nest a further object, and an object
\* that holds a call as the value of its only key.
Bad == <<"{", "x", "}">>
NoArguments == <<"{", "T", "}">>
ToolCall == <<"{", "T", ",", " ", "A", " ", "{", "K", "}", "}">>
FlatCall == <<"{", "T", ",", "S", "}">>
DeepCall == <<"{", "T", ",", "A", "{", "A", "{", "}", "}", "}">>
Wrapped == <<"{", "A", "{", "T", ",", "S", "}", "}">>
Segments == {<<"x">>, <<" ">>, <<"{">>, <<"}">>, Bad, NoArguments, ToolCall,
             FlatCall, DeepCall, Wrapped}

RECURSIVE SegSeqs(_)
SegSeqs(n) ==
    IF n = 0 THEN {<<>>}
    ELSE LET shorter == SegSeqs(n - 1)
         IN  shorter \cup {s \o g : s \in shorter, g \in Segments}

\* The replies processed.
Inputs == SegSeqs(MaxSegs)

\* Mutant of Scan: the pattern \{[^{}]*\}, without the nested group.
RECURSIVE ScanFlat(_, _, _)
ScanFlat(s, j, nested) ==
    IF j > Len(s) THEN 0
    ELSE IF s[j] = "}" THEN j
    ELSE IF s[j] = "{" THEN 0
    ELSE ScanFlat(s, j + 1, nested)

\* re.match of json_pattern (line 50) once its opening brace is consumed, at
\* index j of s, inside a nested {...} or not: the index of the brace that
\* ends the match, or 0.  [^{}] consumes any other token; a nested group may
\* hold no brace; the star cannot stop early, since what it consumed was not
\* the closing brace.
RECURSIVE Scan(_, _, _)
Scan(s, j, nested) ==
    IF j > Len(s) THEN 0
    ELSE IF s[j] = "}" THEN (IF nested THEN Scan(s, j + 1, FALSE) ELSE j)
    ELSE IF s[j] = "{" THEN (IF nested THEN 0 ELSE Scan(s, j + 1, TRUE))
    ELSE Scan(s, j + 1, nested)

\* re.findall (line 51) from index pos on: the matches, leftmost first, none
\* overlapping another.
RECURSIVE FindAll(_, _)
FindAll(s, pos) ==
    IF pos > Len(s) THEN <<>>
    ELSE LET end == IF s[pos] = "{" THEN Scan(s, pos + 1, FALSE) ELSE 0
         IN  IF end > 0
             THEN <<SubSeq(s, pos, end)>> \o FindAll(s, end + 1)
             ELSE FindAll(s, pos + 1)

\* json.loads (line 59) of a text that starts with a brace: an object is
\* pairs separated by commas, with whitespace between the tokens; the value
\* after "arguments": is an object.  end is the index after the object, 0
\* for JSONDecodeError; keys are the object's keys.
NoObject == [end |-> 0, keys |-> {}]

RECURSIVE SkipSpace(_, _)
SkipSpace(s, j) ==
    IF j <= Len(s) /\ s[j] = " " THEN SkipSpace(s, j + 1) ELSE j

RECURSIVE ParseObject(_, _)
RECURSIVE ParseMembers(_, _, _)
ParseObject(s, i) ==
    LET j == SkipSpace(s, i + 1)
    IN  IF j > Len(s) THEN NoObject
        ELSE IF s[j] = "}" THEN [end |-> j + 1, keys |-> {}]
        ELSE ParseMembers(s, j, {})

ParseMembers(s, j, keys) ==
    LET value == SkipSpace(s, j + 1)
        pair ==
            CASE s[j] = "T" -> [end |-> j + 1, key |-> "tool"]
              [] s[j] = "S" -> [end |-> j + 1, key |-> "arguments"]
              [] s[j] = "K" -> [end |-> j + 1, key |-> "k"]
              [] s[j] = "A" ->
                   [end |-> IF value <= Len(s) /\ s[value] = "{"
                            THEN ParseObject(s, value).end ELSE 0,
                    key |-> "arguments"]
              [] OTHER -> [end |-> 0, key |-> "none"]
        next == SkipSpace(s, pair.end)
    IN  IF pair.end = 0 \/ next > Len(s) THEN NoObject
        ELSE IF s[next] = "}"
             THEN [end |-> next + 1, keys |-> keys \cup {pair.key}]
        ELSE IF s[next] = "," /\ SkipSpace(s, next + 1) <= Len(s)
             THEN ParseMembers(s, SkipSpace(s, next + 1),
                               keys \cup {pair.key})
        ELSE NoObject

JsonLoads(m) ==
    LET object == IF m # <<>> /\ m[1] = "{" THEN ParseObject(m, 1)
                  ELSE NoObject
    IN  IF object.end = Len(m) + 1
        THEN [ok |-> TRUE, keys |-> object.keys]
        ELSE [ok |-> FALSE, keys |-> {}]

\* The test of line 62 on what json.loads returned.
IsToolCall(m) ==
    JsonLoads(m).ok /\ {"tool", "arguments"} \subseteq JsonLoads(m).keys

\* str.replace(m, "") (line 64): every occurrence of m is removed, leftmost
\* first.
RECURSIVE Replace(_, _)
Replace(s, m) ==
    IF Len(s) < Len(m) THEN s
    ELSE IF SubSeq(s, 1, Len(m)) = m
         THEN Replace(SubSeq(s, Len(m) + 1, Len(s)), m)
         ELSE <<Head(s)>> \o Replace(Tail(s), m)

\* str.strip() (line 64).
RECURSIVE Strip(_)
Strip(s) ==
    IF s = <<>> THEN s
    ELSE IF Head(s) = " " THEN Strip(Tail(s))
    ELSE IF s[Len(s)] = " " THEN Strip(SubSeq(s, 1, Len(s) - 1))
    ELSE s

\* Mutant of NoToolCall: the text is stripped as it is at line 64.
NoToolCallStripped(s) == [done |-> TRUE, call |-> <<>>, human |-> Strip(s)]

\* Line 73: no match was a tool call; human_readable_text is the reply.
NoToolCall(s) == [done |-> TRUE, call |-> <<>>, human |-> s]

\* The loop of lines 57-70 over the matches: the first that decodes and has
\* both keys is the tool call handed to execute_tool_call, and it is removed
\* from the text.
RECURSIVE TryMatches(_, _)
TryMatches(s, matches) ==
    IF matches = <<>> THEN NoToolCall(s)
    ELSE IF IsToolCall(Head(matches))
         THEN [done |-> TRUE, call |-> Head(matches),
               human |-> Strip(Replace(s, Head(matches)))]
         ELSE TryMatches(s, Tail(matches))

process_llm_response(s) == TryMatches(s, FindAll(s, 1))

\* process_llm_response is called on the reply.
ProcessLLMResponse ==
    /\ ~processed.done
    /\ processed' = process_llm_response(response)
    /\ UNCHANGED response
    /\ UNCHANGED nonParseVars

InitParse ==
    /\ Constructed
    /\ response \in Inputs

NextParse == ProcessLLMResponse

SpecParse == InitParse /\ [][NextParse]_vars


(***************************************************************************)
(* Claims about process_llm_response                                       *)
(***************************************************************************)

\* Running text: words and whitespace.
IsText(s) == \A i \in 1..Len(s) : s[i] \in {"x", " "}

\* s without its whitespace.
NoSpace(s) == SelectSeq(s, LAMBDA t : t # " ")

\* s from i to j is a JSON object with the keys tool and arguments.
CallAt(s, i, j) ==
    /\ i <= j
    /\ s[i] = "{"
    /\ s[j] = "}"
    /\ IsToolCall(SubSeq(s, i, j))

\* C16: when the reply is text, one tool-call object and more text, the
\* object is the tool call and the human-readable text is, whitespace
\* apart, the text before it followed by the text after it.
C16_CallExtracted ==
    processed.done =>
       \A i, j \in 1..Len(response) :
          /\ CallAt(response, i, j)
          /\ 1 < i /\ j < Len(response)
          /\ IsText(SubSeq(response, 1, i - 1))
          /\ IsText(SubSeq(response, j + 1, Len(response)))
          => /\ processed.call = SubSeq(response, i, j)
             /\ NoSpace(processed.human) =
                   NoSpace(SubSeq(response, 1, i - 1)
                              \o SubSeq(response, j + 1, Len(response)))

\* C17: when no part of the reply from a brace to a brace is a JSON object
\* with the keys tool and arguments, there is no tool call and the
\* human-readable text is the reply, token for token.
C17_NoCallUnchanged ==
    processed.done
    /\ (\A i, j \in 1..Len(response) : ~CallAt(response, i, j))
    => /\ processed.call = <<>>
       /\ processed.human = response

\* A reply with whitespace at both ends and an object that is not a tool
\* call was processed.
C17_Witness ==
    /\ processed.done
    /\ response = <<" ">> \o NoArguments \o <<" ">>
    /\ processed.human = response
    /\ processed.call = <<>>

\* The net count of opening braces of s from i to k.
Depth(s, i, k) ==
    Cardinality({m \in i..k : s[m] = "{"})
        - Cardinality({m \in i..k : s[m] = "}"})

\* s from i to j is brace-delimited and balanced, with at most one level of
\* braces inside.
Candidate(s, i, j) ==
    /\ i < j
    /\ s[i] = "{"
    /\ s[j] = "}"
    /\ Depth(s, i, j) = 0
    /\ \A k \in i..(j - 1) : Depth(s, i, k) \in {1, 2}

\* The candidates of s from pos on, in text order, none inside another.
RECURSIVE Candidates(_, _)
Candidates(s, pos) ==
    IF pos > Len(s) THEN <<>>
    ELSE IF \E j \in pos..Len(s) : Candidate(s, pos, j)
         THEN LET j == CHOOSE k \in pos..Len(s) : Candidate(s, pos, k)
              IN  <<SubSeq(s, pos, j)>> \o Candidates(s, j + 1)
         ELSE Candidates(s, pos + 1)

\* sub is a part of s.
Occurs(sub, s) ==
    \E a \in 1..(Len(s) - Len(sub) + 1) :
        SubSeq(s, a, a + Len(sub) - 1) = sub

\* C18: the tool call is the first candidate, in text order, that is a JSON
\* object with the keys tool and arguments (its one level of inner braces
\* included), there is none when no candidate is one, and every candidate
\* before it is still part of the human-readable text.
C18_FirstValidCandidate ==
    processed.done =>
       LET cs == Candidates(response, 1)
           valid == {k \in 1..Len(cs) : IsToolCall(cs[k])}
       IN  IF valid = {} THEN processed.call = <<>>
           ELSE LET first == CHOOSE k \in valid : \A m \in valid : k <= m
                IN  /\ processed.call = cs[first]
                    /\ \A m \in 1..(first - 1) :
                          Occurs(cs[m], processed.human)

(***************************************************************************)
(* Part 5: ToolRegistry (src/src/tools/tool.py), the start-up of            *)
(* AgentServer (src/src/agent/agent_server.py) and the execution of a tool *)
(* found by name (Agent.execute_tool_call), against the connection manager *)
(* of part 1                                                               *)
(***************************************************************************)

\* The keys of config["servers"], in the order of the configuration.
Servers == <<"s1", "s2">>

\* The operations a server's list_tools reports, in the order of its reply.
Operations(n) ==
    IF n = "s1" THEN <<"read", "echo">> ELSE <<"echo", "write">>

\* A variant of NewTool that labels every tool with the first server of the
\* configuration.
NewToolFirstServer(t, n) == [name |-> t, server_name |-> Head(Servers)]

\* Tool(name=tool_info.name, ..., server_name=server_name), lines 157-162.
NewTool(t, n) == [name |-> t, server_name |-> n]

\* A variant of register_tool that keeps the entry a name already has.
register_tool_keeps(reg, tool) ==
    IF reg[tool.name] = NoTool THEN [reg EXCEPT ![tool.name] = tool] ELSE reg

\* register_tool (lines 104-107): self.tools[tool.name] = tool.
register_tool(reg, tool) == [reg EXCEPT ![tool.name] = tool]

\* The loop of lines 155-165 over the operations ops of a reply, for the
\* argument server_name = n: the registry after it.
RECURSIVE RegisterAll(_, _, _)
RegisterAll(reg, ops, n) ==
    IF ops = <<>> THEN reg
    ELSE RegisterAll(register_tool(reg, NewTool(Head(ops), n)), Tail(ops), n)

\* discovered_tools after that loop.
Listed(ops, n) == [i \in 1..Len(ops) |-> NewTool(ops[i], n)]

\* Where a caller's loop stands at its next suspension point, or at its end:
\* its position, the server and connection it is at, the servers still to
\* visit, the servers reported so far, what discover_tools last returned, and
\* whether connect_server has to create the connection.
Outcome(pcv, n, c, rest, rep, found, create) ==
    [pc |-> pcv, name |-> n, conn |-> c, todo |-> rest, reported |-> rep,
     found |-> found, create |-> create]

\* A variant of RunLoad in which the loop is left at the first server for
\* which no session is available.
RECURSIVE RunLoadStops(_, _, _, _, _)
RunLoadStops(names, rep, n0, c0, f0) ==
    IF names = <<>>
    THEN Outcome("idle", n0, c0, <<>>, rep, f0, FALSE)
    ELSE LET n == Head(names)
             c == connections[n]
         IN  IF c = NoConn
             THEN Outcome("idle", n, c0, <<>>, rep \cup {n}, <<>>, FALSE)
             ELSE IF ~init_complete[c]
             THEN Outcome("dt_wait", n, c, Tail(names), rep, <<>>, FALSE)
             ELSE IF session[c] = NoConn
             THEN Outcome("idle", n, c, <<>>, rep \cup {n}, <<>>, FALSE)
             ELSE Outcome("dt_list", n, c, Tail(names), rep, <<>>, FALSE)

\* load_from_config (lines 121-137) over the servers names, each by
\* discover_tools (139-175), up to the first suspension.  get_session returns
\* None without suspending for a name that is not connected, and, the event
\* being set, for a connection without session: the failure is logged (152),
\* [] is returned and the loop goes on.  Otherwise the caller suspends, on
\* the event or in list_tools.  n0, c0 and f0 are what the caller has when
\* no server is left.
RECURSIVE RunLoad(_, _, _, _, _)
RunLoad(names, rep, n0, c0, f0) ==
    IF names = <<>>
    THEN Outcome("idle", n0, c0, <<>>, rep, f0, FALSE)
    ELSE LET n == Head(names)
             c == connections[n]
         IN  IF c = NoConn
             THEN RunLoad(Tail(names), rep \cup {n}, n, c0, <<>>)
             ELSE IF ~init_complete[c]
             THEN Outcome("dt_wait", n, c, Tail(names), rep, <<>>, FALSE)
             ELSE IF session[c] = NoConn
             THEN RunLoad(Tail(names), rep \cup {n}, n, c, <<>>)
             ELSE Outcome("dt_list", n, c, Tail(names), rep, <<>>, FALSE)

\* The first loop of _connect_to_servers_and_discover_tools (agent_server.py
\* lines 108-111) over the servers names, up to the first suspension:
\* connect_server returns at once for a connection whose event is set, waits
\* for the event of one that is initializing, and creates the connection of a
\* name that has none.  The loop over, load_from_config is called (115).
RECURSIVE RunConnect(_, _, _)
RunConnect(names, n0, c0) ==
    IF names = <<>>
    THEN RunLoad(Servers, {}, n0, c0, <<>>)
    ELSE LET n == Head(names)
             c == connections[n]
         IN  IF c = NoConn
             THEN Outcome("su_wait", n, nconns + 1, Tail(names), {}, <<>>,
                          TRUE)
             ELSE IF ~init_complete[c]
             THEN Outcome("su_wait", n, c, Tail(names), {}, <<>>, FALSE)
             ELSE RunConnect(Tail(names), n, c)

\* The caller goes on to where its loop suspends or ends.
Resume(p, o) ==
    /\ pc' = [pc EXCEPT ![p] = o.pc]
    /\ pname' = [pname EXCEPT ![p] = o.name]
    /\ pconn' = [pconn EXCEPT ![p] = o.conn]
    /\ todo' = [todo EXCEPT ![p] = o.todo]
    /\ reported' = [reported EXCEPT ![p] = o.reported]
    /\ discovered' = [discovered EXCEPT ![p] = o.found]
    /\ IF o.create
       THEN /\ nconns < MaxConns
            /\ nconns' = o.conn
            /\ cname' = [cname EXCEPT ![o.conn] = o.name]
            /\ connections' = [connections EXCEPT ![o.name] = o.conn]
            /\ order' = Append(order, o.name)
            /\ Initialize(o.conn)
       ELSE UNCHANGED <<connections, order, nconns, cname, init_task,
                        attempts>>
    /\ UNCHANGED <<mgr_lock, mgr_cleaning, sessions, session, cancel_req,
                   init_complete, cleanup_lock, is_cleaning_up, exit_stack,
                   registered, releasers, teardowns, snapshot, swept, ret>>
    /\ UNCHANGED nonRegVars

\* A registry call starts: nothing is reported yet, nothing is raised.
BeginRegistry(p, o) ==
    /\ Quiet
    /\ pc[p] = "idle"
    /\ nops < MaxOps
    /\ nops' = nops + 1
    /\ op' = [op EXCEPT ![p] = o]
    /\ err' = [err EXCEPT ![p] = FALSE]
    /\ list_failed' = [list_failed EXCEPT ![p] = {}]
    /\ UNCHANGED <<tools, ptool>>

\* A variant of DiscoverTools in which a missing session is raised to the
\* caller.
DiscoverToolsRaises(p, n) ==
    /\ Quiet
    /\ pc[p] = "idle"
    /\ nops < MaxOps
    /\ nops' = nops + 1
    /\ op' = [op EXCEPT ![p] = "discover"]
    /\ err' = [err EXCEPT ![p] =
                  RunLoad(<<n>>, {}, n, pconn[p], <<>>).reported # {}]
    /\ list_failed' = [list_failed EXCEPT ![p] = {}]
    /\ UNCHANGED <<tools, ptool>>
    /\ Resume(p, RunLoad(<<n>>, {}, n, pconn[p], <<>>))

\* discover_tools(connection_manager, n), lines 139-175, called on its own,
\* up to its first suspension.
DiscoverTools(p, n) ==
    /\ BeginRegistry(p, "discover")
    /\ Resume(p, RunLoad(<<n>>, {}, n, pconn[p], <<>>))

\* load_from_config (lines 121-137) called on its own.
LoadFromConfig(p) ==
    /\ BeginRegistry(p, "load")
    /\ Resume(p, RunLoad(Servers, {}, Head(Servers), pconn[p], <<>>))

\* _connect_to_servers_and_discover_tools (agent_server.py lines 104-122).
Startup(p) ==
    /\ BeginRegistry(p, "startup")
    /\ Resume(p, RunConnect(Servers, Head(Servers), pconn[p]))

\* The event is set: connect_server returns, the first loop goes on.
StartupConnected(p) ==
    /\ Quiet
    /\ pc[p] = "su_wait"
    /\ init_complete[pconn[p]]
    /\ Resume(p, RunConnect(todo[p], pname[p], pconn[p]))
    /\ UNCHANGED <<op, err, nops, tools, list_failed, ptool>>

\* The event is set: get_session returns connection.session as it is now
\* (manager line 194); None is logged and the loop goes on, a session is
\* asked for its tools.
DiscoverSession(p) ==
    /\ Quiet
    /\ pc[p] = "dt_wait"
    /\ init_complete[pconn[p]]
    /\ IF session[pconn[p]] = NoConn
       THEN Resume(p, RunLoad(todo[p], reported[p] \cup {pname[p]},
                              pname[p], pconn[p], <<>>))
       ELSE Resume(p, Outcome("dt_list", pname[p], pconn[p], todo[p],
                              reported[p], <<>>, FALSE))
    /\ UNCHANGED <<op, err, nops, tools, list_failed, ptool>>

\* session.list_tools() returns (line 154), every operation of the reply is
\* registered and the list is returned, or it raises, which the except
\* clause logs (173-175) before it returns [].  The loop of load_from_config
\* goes on.  The reply can arrive only while the session's contexts are
\* open.
DiscoverList(p) ==
    /\ Quiet
    /\ pc[p] = "dt_list"
    /\ \E ok \in BOOLEAN :
          IF ok /\ "session" \in exit_stack[pconn[p]]
          THEN LET ops == Operations(cname[pconn[p]]) IN
               /\ tools' = RegisterAll(tools, ops, pname[p])
               /\ Resume(p, RunLoad(todo[p], reported[p], pname[p], pconn[p],
                                    Listed(ops, pname[p])))
               /\ UNCHANGED list_failed
          ELSE /\ list_failed' = [list_failed EXCEPT ![p] = @ \cup {pname[p]}]
               /\ Resume(p, RunLoad(todo[p], reported[p], pname[p], pconn[p],
                                    <<>>))
               /\ UNCHANGED tools
    /\ UNCHANGED <<op, err, nops, ptool>>

\* Agent.execute_tool_call (agent.py lines 75-109) for the tool name t, up to
\* the first suspension of Tool.execute: get_tool(t), and execute on the
\* Tool found, which looks its session up under its own server_name.
InvokeTool(p, t) ==
    /\ tools[t] # NoTool
    /\ Begin(p, "execute", tools[t].server_name)
    /\ ptool' = [ptool EXCEPT ![p] = tools[t]]
    /\ Attempt(p, tools[t].server_name, 0, NoHistory)
    /\ ret' = [ret EXCEPT ![p] = NoConn]
    /\ UNCHANGED <<connVars, snapshot, swept>>
    /\ UNCHANGED <<agentVars, parseVars, capVars>>
    /\ UNCHANGED <<tools, discovered, todo, reported, list_failed>>

\* The registry and the start-up, with tools executed by name.  No server is
\* disconnected here, so a tool's server has set its event by the time the
\* tool is registered, and an execute never waits for it.
NextRegistry ==
    \/ \E c \in Conns : TaskStart(c)
    \/ \E c \in Conns : TaskTransport(c)
    \/ \E c \in Conns : TaskSession(c)
    \/ \E c \in Conns : TaskHandshake(c)
    \/ \E c \in Conns : TaskRelease(c)
    \/ \E p \in Procs : Startup(p)
    \/ \E p \in Procs : StartupConnected(p)
    \/ \E p \in Procs : LoadFromConfig(p)
    \/ \E p \in Procs, n \in Names : DiscoverTools(p, n)
    \/ \E p \in Procs : DiscoverSession(p)
    \/ \E p \in Procs : DiscoverList(p)
    \/ \E p \in Procs, t \in ToolNames : InvokeTool(p, t)
    \/ \E p \in Procs : ExecuteCall(p)
    \/ \E p \in Procs : ExecuteRetry(p)

SpecRegistry == Init /\ [][NextRegistry]_vars

(***************************************************************************)
(* Claims about the registry                                               *)
(***************************************************************************)

\* get_session(n) has no session to return: n is not connected, or its
\* connection has none (its initialization failed).
NoSessionFor(n) ==
    \/ connections[n] = NoConn
    \/ /\ init_complete[connections[n]]
       /\ session[connections[n]] = NoConn

\* C25: no registry call raises; a discover_tools call that finds no session
\* for its server, at once or after waiting for the event, ends in that step:
\* it logs the server as not initialized, returns [] and leaves the registry
\* as it was.
C25_DiscoverNeverThrows ==
    [][\A p \in Procs :
          /\ op'[p] \in {"discover", "load", "startup"} => ~err'[p]
          /\ (/\ NoSessionFor(pname'[p])
              /\ \/ Starts(p, "discover")
                 \/ op[p] = "discover" /\ pc[p] = "dt_wait" /\ pc'[p] # pc[p]) =>
                /\ pc'[p] = "idle"
                /\ pname'[p] \in reported'[p]
                /\ discovered'[p] = <<>>
                /\ tools' = tools]_vars

\* discover_tools was called for a server whose initialization had failed,
\* while the registry held the tools of the other server: [] was returned.
C25_Witness ==
    \E p \in Procs :
        /\ op[p] = "discover" /\ pc[p] = "idle" /\ ~err[p]
        /\ pname[p] \in reported[p]
        /\ discovered[p] = <<>>
        /\ connections[pname[p]] # NoConn
        /\ init_task[connections[pname[p]]] = "failed"
        /\ \E t \in ToolNames : tools[t] # NoTool

\* The elements of a sequence.
Range(s) == {s[i] : i \in 1..Len(s)}

\* Caller p's list_tools returns its reply in this step.
Lists(p) ==
    /\ pc[p] = "dt_list"
    /\ <<pc[p], pname[p], todo[p], discovered[p]>>' #
          <<pc[p], pname[p], todo[p], discovered[p]>>
    /\ list_failed'[p] = list_failed[p]

\* C26: every key of the registry is the name of its Tool; the registry
\* changes only when a list_tools reply is registered, and then every
\* operation of the reply maps to the Tool of the server just queried,
\* whatever it mapped to before, and every other name keeps its entry; a
\* discover_tools call on its own returns one Tool per operation of the reply.
C26_LastWriteWins ==
    [][/\ \A t \in ToolNames : tools'[t] # NoTool => tools'[t].name = t
       /\ tools' # tools => \E p \in Procs : Lists(p)
       /\ \A p \in Procs :
             Lists(p) =>
                LET n == pname[p]
                    ops == Operations(cname[pconn[p]])
                IN  /\ \A t \in ToolNames :
                          tools'[t] = IF t \in Range(ops)
                                      THEN [name |-> t, server_name |-> n]
                                      ELSE tools[t]
                    /\ op[p] = "discover" =>
                          /\ pc'[p] = "idle"
                          /\ Len(discovered'[p]) = Len(ops)
                          /\ \A i \in 1..Len(ops) :
                                discovered'[p][i] =
                                   [name |-> ops[i], server_name |-> n]]_vars

\* Both servers expose echo; the second server was discovered first and the
\* first server's discovery then replaced the entry of echo.
C26_Witness ==
    \E p \in Procs :
        /\ op[p] = "discover" /\ pc[p] = "idle"
        /\ pname[p] = "s1"
        /\ Len(discovered[p]) = 2
        /\ tools["echo"].server_name = "s1"
        /\ tools["write"].server_name = "s2"
        /\ tools["read"].server_name = "s1"

\* C27: a registered Tool carries the name of the server whose reply listed
\* it; an execute of a Tool taken from the registry looks its session up
\* under that server_name on every attempt, calls the tool on a session of a
\* connection of that server only, and returns that session's result.
C27_RoutesToOwnServer ==
    /\ \A t \in ToolNames :
          tools[t] # NoTool =>
             /\ tools[t].name = t
             /\ t \in Range(Operations(tools[t].server_name))
    /\ \A p \in Procs :
          op[p] = "execute" =>
             /\ ptool[p] # NoTool
             /\ ptool[p].name \in Range(Operations(ptool[p].server_name))
             /\ pname[p] = ptool[p].server_name
             /\ pc[p] = "ex_call" =>
                   /\ pconn[p] # NoConn
                   /\ cname[pconn[p]] = ptool[p].server_name
             /\ (pc[p] = "idle" /\ ~err[p]) =>
                   /\ ret[p] # NoConn
                   /\ cname[ret[p]] = ptool[p].server_name

\* echo, registered last by the second server, was executed on that server's
\* session while the first server's tools were registered too.
C27_Witness ==
    \E p \in Procs :
        /\ op[p] = "execute" /\ pc[p] = "idle" /\ ~err[p]
        /\ ptool[p] = [name |-> "echo", server_name |-> "s2"]
        /\ ret[p] # NoConn /\ cname[ret[p]] = "s2"
        /\ tools["read"].server_name = "s1"
        /\ calls[p] = 1

\* The initialization of server n's connection failed.
InitFailed(n) ==
    /\ connections[n] # NoConn
    /\ init_task[connections[n]] \in {"failing", "failed"}

\* Every operation of server n has an entry in the registry.
Discovered(n) ==
    \A t \in Range(Operations(n)) :
        /\ tools[t] # NoTool
        /\ t \in Range(Operations(tools[t].server_name))

\* C28: the start-up and load_from_config raise nothing and visit every
\* configured server; at their end every server whose list_tools did not
\* raise and that was not logged as not initialized has its tools in the
\* registry, and the start-up logs only servers whose initialization failed,
\* so the tools of every Ready server are registered.
C28_FailureIsolated ==
    \A p \in Procs :
        op[p] \in {"startup", "load"} =>
           /\ ~err[p]
           /\ pc[p] = "idle" =>
                 /\ todo[p] = <<>>
                 /\ \A n \in Range(Servers) :
                       /\ (n \notin reported[p] /\ n \notin list_failed[p]) =>
                             Discovered(n)
                       /\ op[p] = "startup" =>
                             /\ n \in reported[p] => InitFailed(n)
                             /\ (/\ connections[n] # NoConn
                                 /\ State(connections[n]) = "Ready"
                                 /\ n \notin list_failed[p]) => Discovered(n)

\* The start-up has ended: the first server's initialization failed and was
\* logged, the second server is Ready and its tools are registered.
C28_Witness ==
    \E p \in Procs :
        /\ op[p] = "startup" /\ pc[p] = "idle" /\ ~err[p]
        /\ InitFailed("s1")
        /\ reported[p] = {"s1"}
        /\ State(connections["s2"]) = "Ready"
        /\ tools["echo"].server_name = "s2"
        /\ tools["write"].server_name = "s2"
        /\ tools["read"] = NoTool

\* Caller p's start-up or load_from_config is suspended on the event of a
\* server that is still initializing.
WaitsOnInitializing(p) ==
    /\ op[p] \in {"startup", "load"}
    /\ pc[p] \in {"su_wait", "dt_wait"}
    /\ ~init_complete[pconn[p]]

\* C29: the discovery of a server never waits on another server's state:
\* while the start-up or load_from_config waits for a server that is still
\* initializing, every other configured server has been connected to by a
\* start-up, and the tools of every other Ready server are registered.
C29_NoCrossWait ==
    \A p \in Procs :
        WaitsOnInitializing(p) =>
           \A n \in Range(Servers) \ {pname[p]} :
               /\ op[p] = "startup" => connections[n] # NoConn
               /\ (connections[n] # NoConn
                     /\ State(connections[n]) = "Ready") => Discovered(n)


(***************************************************************************)
(* Part 6: start_conversation and the tasks of the connections on one      *)
(* event loop.  input() (agent.py line 203) and get_response (lines 213    *)
(* and 247; groq_llm.py lines 119-123, httpx.Client().post) are called     *)
(* without await: the coroutine does not yield while it waits in them.     *)
(***************************************************************************)

\* The caller that connects and disconnects servers beside the conversation.
Other == "p1"

\* A step of a connection's _initialize_impl task.
TaskStep ==
    \/ \E c \in Conns : TaskStart(c)
    \/ \E c \in Conns : TaskTransport(c)
    \/ \E c \in Conns : TaskSession(c)
    \/ \E c \in Conns : TaskHandshake(c)
    \/ \E c \in Conns : TaskCancel(c)
    \/ \E c \in Conns : TaskRelease(c)

\* A step of the caller beside the conversation.
OtherStep ==
    \/ \E n \in Names : ConnectServer(Other, n)
    \/ ConnectReturn(Other)
    \/ \E n \in Names : DisconnectServer(Other, n)
    \/ CleanupLocked(Other)
    \/ CleanupResume(Other)

\* The coroutine of start_conversation is suspended, at the await of line
\* 216 (process_llm_response, execute_tool_call, tool.execute): only then
\* does the event loop run another task.
Suspended == apc = "tool"

NextLoop ==
    \/ NextAgent
    \/ Suspended /\ TaskStep
    \/ Suspended /\ OtherStep

SpecLoop == Init /\ [][NextLoop]_vars

\* The conversation waits for the user's input or for a reply of the model.
Waits == apc \in {"input", "llm", "final"}

\* C35: while the conversation waits for the user's input or for a reply of
\* the model, a connection's task that has a step to take can take it.
C35_WaitsDoNotBlock ==
    (Waits /\ ENABLED TaskStep) => ENABLED (NextLoop /\ connVars' # connVars)


(***************************************************************************)
(* Part 7: Agent.execute_capability (src/src/agent/agent.py lines          *)
(* 137-192), called by MCPServerWrapper._call_tool.  The replies of the    *)
(* model and the outcome of tool.execute are inputs.                       *)
(***************************************************************************)

\* Bound: execute_capability calls.
MaxCaps == 2

\* The strings execute_tool_call and process_llm_response return as result:
\* the result of the k-th tool execution of the call, the error of the k-th,
\* the message for a tool the registry has not, the reply itself.
ToolResult(k) == <<"Tool execution result", k>>
ToolError(k) == <<"Error executing tool", k>>
NoToolFound == <<"No tool found">>
ReplyOf(r) == <<"reply", r>>

\* not result (line 180): None or the empty string.
Falsy(res) == res \in {<<"None">>, ReplyOf("empty")}

\* Lines 180-182: the human text takes the place of an empty result.
ResultOf(res, r) ==
    IF Falsy(res) /\ HasText(r) THEN <<"human text", r>> ELSE res

\* A variant of Returned in which the message of line 186 is returned when
\* the bound is reached.
ReturnedFinal(cl, res) ==
    IF cl >= max_tool_chain_length THEN <<"Maximum reached">> ELSE res

\* Lines 185-190: at the bound the message is logged; result is returned.
Returned(cl, res) == res

\* The loop condition of line 167 is tested: another get_response, or
\* execute_capability returns result.
CapNextRound(itc, cl, res) ==
    IF itc /\ cl < max_tool_chain_length
    THEN /\ cap_pc' = "llm"
         /\ cap_ret' = cap_ret
    ELSE /\ cap_pc' = "idle"
         /\ cap_ret' = Returned(cl, res)

\* execute_capability is called (lines 147-167): for a name that is not a
\* capability it returns at once; else the conversation is the system
\* message and the prompt, and the loop begins.
ExecuteCapability(known) ==
    /\ cap_pc = "idle"
    /\ ncaps < MaxCaps
    /\ ncaps' = ncaps + 1
    /\ cap_llm_calls' = 0
    /\ cap_execs' = 0
    /\ cap_response' = "none"
    /\ IF known
       THEN /\ cap_messages' = <<Msg("system", "tools"), Msg("user", "prompt")>>
            /\ cap_chain_length' = 0
            /\ cap_is_tool_call' = TRUE
            /\ result' = <<"None">>
            /\ CapNextRound(TRUE, 0, <<"None">>)
       ELSE /\ cap_ret' = <<"No capability found">>
            /\ UNCHANGED <<cap_pc, cap_messages, cap_chain_length,
                           cap_is_tool_call, result>>
    /\ UNCHANGED nonCapVars

\* Lines 172-182 for reply r, once process_llm_response has returned
\* (res, itc, human_text).
CapRound(r, itc, res) ==
    LET msgs == Append(cap_messages, Msg("assistant", r)) IN
    /\ cap_is_tool_call' = itc
    /\ IF itc
       THEN /\ cap_messages' = Append(msgs, Msg("system", res))
            /\ cap_chain_length' = cap_chain_length + 1
            /\ result' = res
            /\ CapNextRound(itc, cap_chain_length + 1, res)
       ELSE /\ cap_messages' = msgs
            /\ cap_chain_length' = cap_chain_length
            /\ result' = ResultOf(res, r)
            /\ CapNextRound(itc, cap_chain_length, ResultOf(res, r))

\* get_response returns r (line 169) and process_llm_response runs up to its
\* suspension.
CapReply(r) ==
    /\ cap_pc = "llm"
    /\ cap_llm_calls' = cap_llm_calls + 1
    /\ cap_response' = r
    /\ CASE CallOf(r) = "none" ->
              /\ CapRound(r, FALSE, ReplyOf(r))
              /\ UNCHANGED cap_execs
         [] CallOf(r) = "unknown" ->
              /\ CapRound(r, FALSE, NoToolFound)
              /\ UNCHANGED cap_execs
         [] CallOf(r) = "known" ->
              /\ cap_pc' = "tool"
              /\ cap_execs' = cap_execs + 1
              /\ UNCHANGED <<cap_messages, cap_chain_length,
                             cap_is_tool_call, result, cap_ret>>
    /\ UNCHANGED ncaps
    /\ UNCHANGED nonCapVars

\* tool.execute returns or raises (agent.py lines 90-107).
CapToolReturn(ok) ==
    /\ cap_pc = "tool"
    /\ IF ok
       THEN CapRound(cap_response, TRUE, ToolResult(cap_execs))
       ELSE CapRound(cap_response, FALSE, ToolError(cap_execs))
    /\ UNCHANGED <<cap_response, cap_llm_calls, cap_execs, ncaps>>
    /\ UNCHANGED nonCapVars

NextCapability ==
    \/ \E known \in BOOLEAN : ExecuteCapability(known)
    \/ \E r \in Replies : CapReply(r)
    \/ \E ok \in BOOLEAN : CapToolReturn(ok)

SpecCapability == Init /\ [][NextCapability]_vars

\* The last message of the call's conversation.
CapLast == cap_messages[Len(cap_messages)]

\* execute_capability has returned from its loop.
CapReturned ==
    ncaps > 0 /\ cap_pc = "idle" /\ cap_ret # <<"No capability found">>

====
